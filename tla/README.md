# Verification of QCA (QtCrypto)

QCA is a C++ library that gives Qt programs one interface to cryptography. The
work is done by *providers*, most of them plugins around OpenSSL, GnuPG, PKCS#11,
Cyrus SASL and others. Most algorithms of the library are a call of a provider
and nothing more. What is hard in this code is everything around them: objects
that work through queued events and timers, threads that lend each other objects
or sleep on one wait condition, child processes whose signals come in any order,
lists that are copied between threads. These are the parts modelled here.

This directory holds TLA+ modules of these parts, TLC configurations that check
them on small instances, and proofs for TLAPS. Paths below are relative to the
repository; `qca_core.cpp` and the like, without a directory, are in `src/` or
`src/support/`, headers in `include/QtCrypto/`. `PROJECT.json` names for every
definition the source lines it translates.

Contents: 1 inventory · 2 modules and how they correspond to the code · 3 runs,
bounds and what they show · 4 fairness · 5 proofs · 6 where the code differs from
what is said of it · 7 what is left out · 8 plan.

## 1. Inventory

### The parts, their state and their operations

| Part | State it keeps | Operations | Talks to |
|---|---|---|---|
| **Event system** (`qca_core.cpp` 1570-2128): how a passphrase is asked for | `EventGlobal`: list of handlers, each with ids of questions; list of asker items; next id. Per handler the ids shown; per asker `accepted`, `done`, a wait condition | `ask`, `cancel`, `waitForResponse` of an asker; `start`, `submitPassword`/`tokenOkay`, `reject`, destruction of a handler | queued "ask" and "response" events between threads; one global mutex, one mutex per asker |
| **SyncThread** (`syncthread.cpp`) | owner, worker, one mutex and one wait condition, the event loop of the worker | `start`, `stop`, `call` | `KeyStoreThread` and `ConsoleThread` are SyncThreads |
| **Synchronizer** (`synchronizer.cpp`) | worker thread, the object it has on loan, `do_quit`, `cond_met` | `waitForCondition`, `conditionMet`, destructor | `GpgOp::waitForEvent`, so every blocking call of the GnuPG plugin |
| **Key store tracker** (`qca_keystore.cpp` 77-550) | sources, those that are busy, list of stores with tracker ids and update counts | start and stop of a provider, `busyStart`, `busyEnd`, `updated`, `storeUpdated` | providers' `KeyStoreListContext`; queued signal `updated_p` to managers |
| **KeyStoreManager, KeyStore** (`qca_keystore.cpp` 559-1719) | copies of the tracker's list, `pending`, `waiting`, a hash of KeyStore objects; per object its list of entries and running operations | `start`, `sync`, `waitForBusyFinished`, `update`, KeyStore construction, `startAsynchronousMode`, `entryList` | tracker (called through SyncThread), threads of the operations |
| **TLS** (`qca_securelayer.cpp` 34-1275) | session state, current operation, action queue, a timer, four byte buffers, `LayerTracker` | start, `write`, `writeIncoming`, `read`, `readOutgoing`, `close`, `continueAfterStep`, `reset`, `convertBytesWritten` | `TLSContext` of a provider, which posts `resultsReady` |
| **SASL** (`qca_securelayer.cpp` 1276-1989) | the same, with authentication steps | the same, with `putStep`, `setUsername`, `continueAfterAuthCheck` | `SASLContext` |
| **Provider manager** (`qca_plugin.cpp`, `qca_core.cpp` 60-900) | list of items in order of priority, list of names, per item `init_done` and a mutex | scan, add, priorities, find by feature or name, unload | plugin files, every other part |
| **Global Random** (`qca_core.cpp` 120-170, `qca_basic.cpp`) | one object and its mutex | use, drop | provider manager |
| **QPipe** (`qpipe.cpp`) | per end a buffer, what is handed to the kernel, timers, a socket notifier | `write`, `read`, `close`, `takeBytesToWrite`, `release`, `reset`, `finalize` | kernel pipe; Console, GPGProc |
| **GPGProc** (`plugins/qca-gnupg/gpgproc`) | a QProcess with a relay of its signals, up to three pipes, what is kept until gpg runs, two flags that make up the end | `start`, `write*`, `close*`, `read*`, `reset` | QProcess, QPipe |
| **GpgOp, GpgAction, MyMessageContext** (`plugins/qca-gnupg`) | running action, queued events, the passphrase prompt, the result | operations on messages; `submitPassphrase`; `waitForEvent` | GPGProc, Synchronizer, PasswordAsker |
| **SecureMessage** (`qca_securemessage.cpp`) | buffers, result, three triggers | `start*`, `update`, `end`, `waitForFinished` | MessageContext of a provider |
| **Keys, certificates, ciphers, hashes** (`qca_publickey.cpp`, `qca_cert.cpp`, `qca_basic.cpp`, `qca_default.cpp`) | data | conversions and calls of a provider; `KeyGenerator` and `KeyLoader` may use a thread | provider manager |
| **KeyGenerator, KeyLoader** (`qca_publickey.cpp`, `qca_cert.cpp`) | the key or group that is being made, the blocking flag; what is loaded and its result | `createKey`, `createDLGroup`, `setBlockingEnabled`; `load*`, which may ask for a passphrase | threads of qca-ossl's keys; event system |
| **GnuPG key list** (`MyKeyStoreList`, `RingWatch` of qca-gnupg) | copies of two rings, dirty flags, times of the files | `start`, changes of directories, the end of a gpg | GpgOp; tracker |
| **KeyStoreEntryWatcher** (`qca_keystore.cpp` 800-900) | a manager, a KeyStore, whether the entry is there | | KeyStoreManager |
| **qca-softstore, qca-pkcs11** | a list of entries or of tokens with ids; keys with what is unlocked, sessions | `entryList`, `keyStores`, `decrypt`, signing; prompts | tracker, event system, pkcs11-helper |
| **Text filters, tools** (`qca_textfilter.cpp`, `qca_tools.cpp`) | partial input; memory | encode, decode; arrays, big integers | |
| **Console** (`console.cpp`) | a thread with two pipes, a reference, a prompt with its line | `start`, `stop`, `read`, `write`, `getHidden`, `getChar`, `waitForFinished` | QPipe, SyncThread |
| **DirWatch, FileWatch, Logger** (`support/`) | watched paths; devices | | QFileSystemWatcher |
| **Other plugins** | each a provider of contexts | | provider manager, key store tracker |

`PROJECT.json` lists all of them as components, the ones that are not modelled
with the reason.

### How they interact

    application ── KeyStoreManager ──(updated_p)── KeyStoreTracker ── providers
         │               └── SyncThread (tracker thread) ──┘
         ├── SecureMessage ── MyMessageContext ── GpgOp ── GpgAction ── GPGProc ── QPipe ── gpg
         │                         │                └── Synchronizer (waitForFinished)
         │                         └── PasswordAsker ── EventGlobal ── EventHandler ── user
         ├── TLS / SASL ── TLSContext ── OpenSSL          (network: the application's socket)
         └── every object ── ProviderManager ── plugins

An arrow down is a call; the way up is a signal, delivered through the event
loop of the receiver's thread, later and after whatever came before. That gap is
the cause of most hazards in this code.

### What is hard here

* **Interleaving.** Handlers come and go while others hold questions; a provider
  is initialized by one thread while another finds it; a key store changes
  between the reads of a manager; an answer of the user meets the end of gpg.
* **Order of queued events.** The end of gpg's process against the end of its
  status pipe; results of a TLS operation against `reset()`; `responseReady()`
  of one question against the next one.
* **State that is stale when used.** Positions in a list that has shrunk,
  fields of a context that the next operation inherits, what QProcess says of
  itself before its signals are delivered.
* **Sleeping and waking.** Several sleepers on one condition; tests made before
  the sleep; limits that run out at the wrong moment.
* **Things that must happen.** A blocked asker, a full pipe, data that waits in a
  context for an update which nobody asks for.

Nothing is persisted by these parts and no messages are lost between them, so
crash recovery and lossy delivery are not hazards of this code. What can fail is
a gpg that crashes, a provider that gives up and a peer that closes or sends a
bad record, and these are modelled. The full list, each at its line and with
the properties that cover it, is `hazards` in `PROJECT.json`.

### What makes each part correct

* Event system: every question is answered once, offered to the handlers in turn,
  and never forgotten; a blocked asker wakes.
* SyncThread: every call gets its own result; start, stop and call return.
* Synchronizer: the object is back, and its worker done with it, when the wait
  returns; the result is true.
* Key stores: the tracker's list is what the providers show; a manager and its
  KeyStore objects end up with it, whatever changed when.
* TLS: what is written is sent, what arrives is delivered, written bytes are not
  over-reported, steps of the handshake come in order.
* Provider manager: the right provider, initialized, and none deleted in use.
* QPipe: a stream of bytes.
* GPGProc: one end, which is true, after everything that came before it.
* SecureMessage: one end, a result that stands, its output there.
* SASL: every operation ends; no session of a server without the application's
  approval; nothing comes out that the peer did not put in.
* Key lists: what is shown was announced, and follows the files, the configuration
  or the tokens. An id stands for one token, a session is locked by one user.
* Console: prompts get what was typed, in order. KeyGenerator, KeyLoader: what they
  tell is of the operation that has ended.
* A signature goes on with the key it began with, whatever expires meanwhile.
* Algorithms: a completed chain is a chain, a valid one ends at a trusted root; names
  tell certificates apart; text in chunks is text at once.

## 2. Modules

| Module | Models | A step is |
|---|---|---|
| `EventSystem` | event handlers, askers, `EventGlobal` | a function under `g_event_mutex`, or what a thread does between two of them |
| `SyncThread` | `SyncThread` and `KeyStoreThread::call_mutex` | a section under `m`, ended by a sleep or a return |
| `RemoteCall` | *abstract*: what SyncThread promises | |
| `Synchronizer` | `SynchronizerPrivate`, its agent and its worker | a section under `m` |
| `KeyStoreTracker` | `KeyStoreTracker` and the providers' lists | a slot of the tracker |
| `KeyStoreManager` | `KeyStoreManagerPrivate`, `KeyStore`, `KeyStoreOperation`; EXTENDS the tracker | a section under the manager's `m`; each read of the tracker's state |
| `LayerTracker` | `LayerTracker` | (operators only) |
| `TLSContext` | `MyTLSContext` of qca-ossl, over OpenSSL as an external | (operators only) |
| `TLS` | `TLS::Private`; uses the two above | a call of the application or a delivered event |
| `ProviderManager` | `ProviderManager`, `ProviderItem`, `Global`, the global `Random` | what a thread does up to the next mutex or call of a provider |
| `QPipe` | `QPipeEnd` over `QPipeDevice`, both ends | a call, a timer, a notification |
| `ByteStream` | *abstract*: what a pipe promises | |
| `GPGProc` | `GPGProc`, `QProcessSignalRelay`, QProcess and gpg as far as they are seen | a call, a delivered signal, a move of gpg |
| `SecureMessage` | `SecureMessage`, `MyMessageContext`, `GpgOp`, `GpgAction` | a call, a trigger, an event of gpg, a move inside `waitForFinished()` |
| `SASLContext`, `SASL` | `saslContext` of qca-cyrus-sasl over the Cyrus library as an external; `SASL::Private` | a call of the application or a delivered event |
| `AuthSession` | *abstract*: what a SASL session promises | |
| `EntryWatcher` | `KeyStoreEntryWatcher`; EXTENDS `KeyStoreManager` | a slot |
| `KeyRing` | `MyKeyStoreList` and `RingWatch` of qca-gnupg | a slot, the end of a gpg |
| `Console` | `Console`, `ConsoleReference`, `ConsolePrompt` | a call, a queued signal |
| `KeyGenerator`, `KeyLoader` | the classes, with the threads of qca-ossl and of the loader | a call, the run of a thread, a slot |
| `FileWatch` | `FileWatch` over QFileSystemWatcher | what `start()` and the slots do between two looks at the file |
| `SoftKey`, `SoftStore` | the keys and the list of qca-softstore | a round of `_ensureAccess()`, a call; a part of `_updateConfig()` |
| `TokenStores` | the list, the keys, the prompts and the slot events of qca-pkcs11 | a token of `keyStores()`, a call of pkcs11-helper |
| `Certificates` | chains and names of `qca_cert.cpp`, `validate_chain()` of qca-ossl | one question, one answer |
| `TextFilter` | `Hex`, `Base64` | a chunk |

The modules `*_proofs` hold the theorems of section 5: `Support_proofs` those of `SyncThread`,
`QPipe` and `SecureMessage`, `TokenStores_proofs` those of `KeyRing` and `GPGProc` as well, and
`Console_proofs` also those of `Synchronizer`. Those named `MC*` give values to the constants
and put parts together for TLC:

| Module | Parts | Runs |
|---|---|---|
| `MCEventSystem` | `EventSystem`, `KeyGenerator`, `KeyLoader` | `questions` |
| `MCSupport` | `SyncThread`, `QPipe`, `FileWatch`, and of the GnuPG plugin `SecureMessage` and `KeyRing` | `support` |
| `MCWaits` | `Synchronizer`, `TLS` | `waits` |
| `MCSynchronizer` | `Synchronizer` | `early_timeout` |
| `MCKeyStoreManager` | `EntryWatcher` with what it extends | `keystores`, `entry_gone` |
| `MCTLS` | `TLS` | `tls_greeting` |
| `MCProviderManager` | `ProviderManager`, the safety of `TLS`, `Certificates`, `TextFilter`, `SoftKey` | `providers`, `chain_order` |
| `MCPipes` | `GPGProc`, `Console` | `pipes` |
| `MCPlugins` | `SASL`, `SoftStore`, `TokenStores` | `plugins` |
| `MCSoftKey` | `SoftKey` | `unlock_timeout` |

In a run of several parts one moves while the others are as they were created. They share
no state in the code, so that a product of them would only be larger; and no part has a
fair action in its first state, so that a part that never moves excludes no behaviour of
another one. The real compositions are modules of their own: `EntryWatcher` of watcher,
manager and tracker; `TLS` of the session, its context, the byte accounting, the socket and
the peer; `SASL` of the session, its context and the peer; `QPipe` of two ends and the
kernel; `SecureMessage` of four classes, and of `GPGProc` through what that module shows (a
run ends once, after its last status line); `KeyLoader` of the loader, its thread and the
event system, through what that shows (a question is completed).

Names are those of the code: actions are called like the functions
(`handler_reject`, `ksl_busyEnd`, `writeNotify`, `proc_finished`), variables like
the fields. Where one function sleeps in the middle, its parts are `stop`,
`stop_join`, `stop_return` and so on. Data is cut down to what can be told apart:

* **EventSystem.** A question is its id. The list of AskerItems is a function
  from the id, because items are only ever appended with growing ids;
  `handler_pos` is kept as `pos`, an index that shifts when handlers go, just as
  in the code. `cancelled` is a history variable.
* **SyncThread, Synchronizer.** The methods called have no content; a result is
  the caller it belongs to. Mutexes held over several steps are visible, the
  others are the atomicity of an action. `strayed` and `met` in Synchronizer are
  history: a limit ran out while the worker was outside its loop, and
  `conditionMet()` was called in this wait.
* **Key stores.** A store is an id that outlives its presence, a context id that
  is new each time it appears, and the version of its entries. `absorbed` is
  history: `sync()` or a wait replaced the manager's copies behind the back of
  `update()`, which hides changes from KeyStore objects (section 6). The run has
  one KeyStore object: of two for the same store the code tells one (section 6). The hash
  by tracker id is kept as the order in which the objects of one id were inserted, for each
  object those before it; `ManagerConsistent` is about any number of them.
* **TLS.** The network carries records: `hs` (a handshake flight), `app`, `fin`
  (close_notify), `bad`, `raw` (bytes after the end); an outgoing record is as
  long as its plain bytes and one. OpenSSL is external, at the level of flights
  and records. A context may hold back a write until it has read (`wants`, at most
  `MaxRare` times: 0 is what is seen of OpenSSL while nothing renegotiates) and may
  report a hello with each flight (`TellsHello`, FALSE for qca-ossl). `MinEncoded`
  is a floor of `to_net_encoded`, which the code may drive below zero (section 6).
  `AppCalls` are calls that an application need not make: `convertBytesWritten()`,
  a `reset()` with a result under way, `writeIncoming()` without a session. The
  last two lead to the deviations of section 6 and are off in the runs.
* **ProviderManager.** A file offers a provider; a provider has a set of types.
  `UnloadAlone` says that `unloadAllPlugins()` is called while no other call is
  under way. The code has no protection against that, and it says so nowhere; it
  is an assumption about programs.
* **QPipe.** A byte is its position in the stream, so that loss, doubling and
  reordering all show.
* **GPGProc.** Input and output are numbered chunks; the status pipe carries
  units, every second of which ends a line.
* **SecureMessage.** `Patient`: gpg takes all its input and waits for the answers
  it asked for, so the program's calls find it alive. `Mixed`: the program may
  call `waitForFinished()` after the event loop has run. `late` is history: it
  did so when the end or a prompt had already gone to a slot. With `Patient`
  FALSE the null pointer of section 6 is reached.
* **SASL.** The library says of each step what it says of it: go on, done, interact,
  check the user, error. Bytes are counted; what one side encodes the other decodes in
  units. `AppCalls` as for TLS: `"restart"` is a reset with an operation under way,
  `"early"` (off) gives bytes to `writeIncoming()` before it may.
* **EntryWatcher.** With `Watches` TRUE the application has a watcher and nothing else.
* **KeyRing.** A ring is the version of its file; a gpg reads it at some moment before it
  ends.
* **Console.** Three kinds of keys are typed; a program has a console for good or lets each
  prompt make its own.
* **KeyGenerator, KeyLoader.** A result is the number of the operation that made it.
  `Careful` says that a program makes nothing else while it makes a group (section 6). A
  loader's data is one of five contents, of which each provider can read some.
* **FileWatch.** A file is a number, its content a version. `raced` is history: the file
  came or went between two looks at it.
* **SoftKey.** A key object is whether it holds the private key and the key of a signature,
  and `dueTime`. `Midway` says that a key may be copied while it signs (section 6, FALSE in
  the runs); `Declines` names the operations of which the user may decline a question:
  refusing a `startSign()` leads to a null key (section 6), and is off.
* **SoftStore.** The configuration is the number of its changes. `Parallel` says that
  another thread reads the list than the one that configures (section 6).
* **TokenStores.** The ids go round at `MaxId`, as an `int` does at its end. `Overlap` says
  that a listing may delete an item that a prompt is using (section 6).
* **Certificates.** A certificate of a chain is an element of a set, with a relation that
  says who may have issued whom. A certificate to be named is its values.
* **TextFilter.** Bytes and characters are numbers.

Modelled as external, from how the code uses them: Qt's event loop (events of
one receiver in order, timers once each), QProcess, `QWaitCondition`,
QFileSystemWatcher, the kernel's pipe, OpenSSL, the Cyrus library, pkcs11-helper, gpg,
plugin objects.

## 3. Runs

Every run checks deadlock unless its configuration says why the system may stop.
Many properties are a conjunction of named parts; the comments of the parts, in
the modules, say what each means.

| Run | Instance | Shows |
|---|---|---|
| `questions` | 2 handlers, 2 askers (1 cancels), 2 ids handed out, 2 posted events per asker; 2 contexts and 3 operations of a KeyGenerator; 3 providers of a KeyLoader; 77 000 states | `QuestionsKnown`, `ShownOnce`, `NoLostQuestion`: who holds and who shows a question; `OfferedInOrder`: a question goes to the next handler only, never past one; `CompletedOnce`: an answered question is not answered again; `EverythingEnds`: blocked askers wake, questions are completed; `KeysConsistent`, `KeysArrive`: of generator and loader, what they tell is so, and they tell it |
| `support` | 3 callers and unbounded restarts of a SyncThread; a pipe with 5 bytes, blocks of 2, a buffer of 2 and room for 3; a file with 5 changes; 2 operations on messages with 2 updates and 2 prompts each; 2 key rings with 3 versions; 66 000 states | `OwnResult`, `OneSleeper`, the refinement of `RemoteCall`; `PipeConsistent`: no byte lost or told early, and the refinement of `ByteStream`; `MessageConsistent`: message, context, gpg and prompt agree, and a result stands; `RingsAreShown`: what the key list shows was announced, and a change that is noticed while gpg does not read the ring is read; `NothingIsMissed`: calls return, operations end, bytes arrive, changes of a file are told, unless it came or went between two looks at it (`raced`) |
| `early_timeout` | *violation* | see section 6 |
| `keystores` | 2 providers, a store that appears twice, 1 change of entries, 2 queued updates, a provider that is busy again, an application with or without an entry watcher; 901 000 states | `Consistent`: the tracker's list is right after every slot; `IdsNotReused`; `KeyStoresFollow`: no change is lost on the way to the manager or to a KeyStore; `WatcherFollows`: the watcher says of the entry what is so while the store is there; `WaitReturns` |
| `entry_gone` | *violation* | see section 6 |
| `waits` | limits of a Synchronizer that run out at any moment; 1 session of qca-ossl, records one by one; 26 000 states | `WaitConsistent`: the object is home when the wait is over; `HonestWait`: its result says whether the condition was met; `EverythingMovesOn`: waits return, data is delivered and sent, and a session ends when the peer closes it. What is false once a limit has run out at a bad moment says so by `strayed` |
| `tls_greeting` | *violation* | see section 6 |
| `providers` | 2 threads, 2 plugins, 1 unload, 2 calls, priorities -1 and 0; 2 TLS sessions, 2 handshake flights, one write, one record each of data and trailing bytes, one step listened to; chains of 3 certificates, lists of 3 names; texts of up to 5 characters in chunks; 2 PrivateKeys of one entry; safety only, the threads are symmetric; about 1 000 000 states | `Consistent`: order of the list, holders of mutexes run, unloading deinitializes before it deletes; `RightProvider`: and never before its `init()` has returned; `SessionConsistent`: nothing waits in a buffer or queue of TLS with nobody to fetch it, and each result is that of its operation; `StepsInOrder`; `NeverOverReports`; `ChainsRight`; `AlgorithmsRight`: names tell certificates apart, lists of values survive the way to a map and back, addresses and texts are read right; `SigningStands`: a signature goes on with the key it began with |
| `pipes` | 2 runs of gpg, one plain channel and one pipe, 2 chunks of input, 1 of output, 2 status units, a buffer of 4; 3 keys typed at 2 prompts; 490 000 states | `RunIsTrue`: a run ends once, truly, after its last status, and loses nothing; `ConsoleConsistent`: prompts get what was typed, in order; `EndsAreTold`: of gpg and of prompts |
| `plugins` | 2 SASL sessions of 2 steps and a byte each way, restarted or reset at any time; 3 configurations of qca-softstore; 2 tokens that come and go twice, 2 threads with 2 operations on the key of one, 2 ids, a failure anywhere; 119 000 states | `SaslConsistent`: nothing stays behind without an event that will handle it; the refinement of `AuthSession`; `TokensConsistent`: ids, items and sessions are each of one token and one user; `ListsFollow`: the lists are those of the last configuration and of the tokens that are there; `EveryOperationEnds` |
| `chain_order`, `unlock_timeout` | *violations* | see section 6 |

Why these bounds are enough:

* *questions*: a question can be declined by one handler and be taken by the
  next, a handler in front can go while one behind holds a question (positions
  shift), two askers compete, and an id is given out while an older one is open.
  With one handler nothing shifts; a third only repeats the shift. The theorems
  of section 5 do not depend on these bounds in any case. A KeyGenerator is deleted
  and another operation begun while a context still has its thread. A loader meets each
  kind of provider before and after each other.
* *waits*: the Synchronizer has no bound but the length of its queue, which the code keeps
  at two. One session is enough here: what a second one meets is in `providers`.
* *support*: one caller runs, one waits for `call_mutex`, one arrives. Block, read buffer and kernel pipe are all filled more than once, and the pipe's size is
  not a multiple of the block, so partial writes occur. A file comes and goes more than
  once. The second operation on a message meets the fields of the first; of two prompts one
  is answered and one outlives its answer. Both rings change, while one is read and after.
* *keystores*: a store must be able to go and come back (two contexts), to change
  while an operation reads it (one change), and a second update must be queued
  behind the first. A second provider makes "busy" differ from "one is busy".
* *providers*: two threads meet at one item; two plugins give an order; a file
  is installed after the first scan; the default provider is the third choice. A second
  TLS session is what finds fields that `reset()` leaves; records split once in the socket's
  reports; the step blocks with an action queued. Three certificates make a chain with a
  loop, a fork and a root; three names are needed for two that coincide in different
  values. Five characters are more than a group of Base64, with a line break within it. Of
  two keys one signs while the other's use asks, is refused or lets the first expire.
* *pipes*: the second run meets what is left of the first. `ReadBuf` is larger
  than what gpg writes: with a smaller one the code loses status (section 6).
* *plugins*: a result of the first session is on its way when the second begins. Two
  tokens with two ids make ids come round; the token goes while its key is used, and both
  users want it.

Each property of a passing run has a mutant in `PROJECT.json`: a plausible bug in
one definition with which TLC finds the property violated.

## 4. Fairness

Weak fairness only, and only of what the code or the platform does by itself:
threads that are not blocked run, event loops deliver posted events and timers,
notifiers fire. In particular:

* `EventSystem`: the user answers or declines a question that is shown: `Submit
  or Reject` is fair, neither alone. Asking, cancelling and destroying are not.
* `SyncThread`: no fairness of acquiring `call_mutex`: QMutex gives no order, so a
  caller may starve there. `AllReturn` is about calls that have the mutex.
* `Synchronizer`: time passes, and the object's events are delivered by a loop
  that runs. That the condition ever happens is not assumed. Fairness is over the
  variables of the program, without the history ones.
* `KeyStoreManager`: a provider that is started comes to its `busyEnd()`, which
  `waitForBusyFinished()` is about.
* `TLS`: posted results and timeouts are delivered, the application answers steps
  and fetches outgoing data, the socket hands over what has arrived. Nobody has
  to write, to send or to close.
* `QPipe`: timers, notifiers, and a reader that reads what it was told of.
* `GPGProc`: the loop runs and QProcess tells of a process that has ended; gpg
  may run for ever, so `EndIsTold` begins where gpg is gone.
* `SecureMessage`: in addition the program ends its input, the user answers and
  gpg goes on; otherwise no operation need end.
* `SASL`: posted results and the timer. `KeyGenerator`, `Console`, `EntryWatcher`,
  `FileWatch`: threads that have something to do, queued signals. `KeyRing`: in addition a
  gpg that is started reads and ends.
* `KeyLoader`: the question is answered, which `EventSystem!EverythingEnds` shows as far as
  there is a handler, and without one it is rejected.
* `SoftStore`, `TokenStores`: threads go on, slot events are delivered, and a prompt is
  answered, if with a refusal. Nothing makes the application want the stores.

## 5. Proofs

TLAPS proves, for every value of the constants (any sets of handlers, askers, callers,
threads, plugins, tokens; any size of blocks, buffers and pipes; any set of moments at which
a limit runs out; any bounds):

| Theorem | States |
|---|---|
| `EventSystem_proofs!Invariance` | `Spec => []IInv` |
| `...!TypeCorrect`, `PositionsCorrect`, `ShownCorrect`, `NeverLost` | the parts: types; every held id is a known question whose position points back at its holder; a question is shown by one handler at most and is held by the one that shows it; a pending question is with some handler |
| `...!OffersInOrder` | a question goes only from a handler to the next one behind it, and is dropped only by the last one or by `cancel()` |
| `...!AnswersStand` | what an asker that does not cancel was answered stays until it asks again, and is told once |
| `...!KeysAreConsistent` | `QuestionsSpec => []KeysConsistent`, of KeyGenerator and KeyLoader: contexts, threads and results fit together; a load ends with what its data, the providers and the user's answer ask for *(Careful)* |
| `Support_proofs!TypeCorrect`, `ResultsCorrect` | types; a call returns its own result |
| `...!WakeupsCorrect` | every wakeup reaches the one thread it is meant for; the worker never needs the mutex that the owner holds while it joins |
| `...!Refinement` | `Spec => ImplementsRemoteCall` |
| `...!PipesConsistent` | no byte is lost, doubled or out of its place; what `bytesWritten()`, `closed()` and `error()` say is so |
| `...!PipeIsStream` | `PipeSpec => ImplementsStream` |
| `...!MessagesConsistent` | a message is told to be finished once, however it ends; a prompt is open only while the gpg it is for waits; after a success the output has been read or is about to be told of *(Patient)* |
| `Console_proofs!ConsistentHolds` | types; when a wait has returned the object is home and the worker asleep, until a limit has run out while the worker was outside its loop |
| `...!HonestWaitHolds` | the result of a wait is whether the condition was met in it; a wait without a limit ends with nothing else, under the same condition |
| `...!PromptsConsistent` | `ConsoleSpec => []ConsoleConsistent`: prompts on a program's console get what was typed, line by line or key by key and in order; no key is lost while it lives; a prompt that was started ends once |
| `KeyStoreManager_proofs!ListCorrect`, `IdsCorrect` | the tracker's list has exactly the stores that the providers which have finished show, each once; `Spec => IdsNotReused` |
| `...!CopiesFollow` | when nothing is on its way, the manager's copies are the tracker's state |
| `...!ManagerConsistent` | `Spec => []Consistent`: the tracker's list is right, and every valid KeyStore is in the manager's hash once, in an order |
| `...!StoresAreFollowed` | with nothing on its way, no KeyStore is left of a store that has gone, and an asynchronous one has the current entries *(OneObjectEach)* |
| `...!EntryIsFollowed` | `SystemSpec => []WatcherFollows`: the watcher says that its entry is available exactly if it is in the store, while the store is there |
| `ProviderManager_proofs!ManagerConsistent` | the list is in order and has each provider once; who holds a mutex goes on; nothing is deleted before its `deinit()` *(UnloadAlone)* |
| `...!CallsGetTheRightProvider` | a call returns the provider that name and priorities ask for, after its `init()`; none only when none that it could have found can do it *(UnloadAlone)* |
| `...!SignaturesStand` | `KeySpec => []SigningStands`: a signature keeps the key it began with, in an object of its own *("sign" not in Declines, ~Midway)* |
| `TokenStores_proofs!TokensKnown` | an id is of one token, also when ids come round; the tracker lists what the plugin has; a session has one user |
| `...!TokensStayConsistent` | `TokensConsistent`, so that a prompt uses the item of its token *(~Overlap)* |
| `...!RingsShown` | `RingSpec => []RingsAreShown`: what the key store of GnuPG shows was announced; a dirty ring is being read, comes next, or gpg has failed |
| `...!RunsAreTrue` | `RunIsTrue`: a run of gpg ends once, and truly; every status line is heard before; nothing that is written to gpg or put out by it is lost or doubled *(~Eager, PipeFits)* |
| `TLS_proofs!TlsInvariant`, `SessionsConsistent` | what a session has to handle has an event that will handle it; each result is taken for the operation that posted it *(Calm)* |
| `...!StepsComeInOrder` | `TlsSpec => StepsInOrder`: a step of the handshake is told once, and no data goes to the context while one is unanswered *(Calm, one step listened to)* |
| `...!ReportsAreHonest` | `TlsSpec => []NeverOverReports`: no plain byte is reported that was not in a chunk the socket has written wholly *(Calm, MinEncoded <= 0)* |
| `SASL_proofs!SessionsConsistent` | what waits in a queue, a buffer or the context has an event that will handle it *("mute" not in ServerStarts)* |
| `...!SaslIsAuthSession` | `SaslSpec => ImplementsAuth` |

Assumptions: the `ASSUME`s of the modules (bounds are naturals, `Cancellers` is a set of
askers, `None` is no caller, there are finitely many stores, tokens and plugins, each store
has one provider, there are no fewer ids than tokens, finitely many PrivateKeys stand for an
entry, and its unlock timeout is a natural number or none), and where the table says so one more, in
the statement of the theorem. Each of these is a mode of use, both sides of which the
module models, and the other one leads to a difference of section 6:

* `UnloadAlone`: `unloadAllPlugins()` is called while no other thread is in the library.
* `~Overlap`: no listing deletes an item that a prompt is using. `TokensKnown` is what is
  left without it.
* `OneObjectEach`: at no time are two valid KeyStores of one store. It is a formula of
  states, assumed of the whole behaviour; of two, the code tells one.
* `Careful`: the application makes nothing else while a group is being made. It is in the
  theorem with what else it needs of the constants (`KeysAssumption`): no context is null,
  something can be made, and the providers are a list of the three kinds, with one at least.
* `Declines` without `"sign"`, and `~Midway`: the user does not refuse a signature, and no
  PrivateKey is copied while it signs. All other operations may be refused.
* `Patient`: gpg takes all its input, and waits for the answers it has asked for. `Mixed` may
  be either, so `waitForFinished()` may come after signals.
* `~Eager`: the program writes to gpg before it is started or when `started()` has come.
  `PipeFits` is a formula of states, assumed of the whole behaviour: one read of
  `PIPEEND_READBUF` takes what is in the status pipe, as it does when `MaxUnits` is no larger.
* Calm: `AppCalls` has at most `"convert"`. The application does not call `reset()` while a
  result is owed, nor `writeIncoming()` without a session; to call `convertBytesWritten()`, or
  not, is left to it. `StepsInOrder` is false for an application that listens to two steps.
  `MinEncoded` bounds a count that the code does not; at or below 0, where the count starts, it may be anything.
* `"mute"` is a `startServer()` that has no mechanisms and posts no result. The refinement
  does not need this assumption, nor that the application keeps to `AppCalls`.

No invariant that a run checks is inductive alone; the strengthened ones are below.

**EventSystem.** That no
question is lost needs that an id a handler holds is either queued for it or
shown by it, which needs that the positions of the other items still point at
their holders when a handler is removed, which needs that the list has each live
handler once. `IInv` is the conjunction. The hard step is `DeclineStep`, which `Reject` and
`DestroyReject` share: a question goes from one handler to the one behind it, or is completed
as rejected at the end of the list. `DestroyRemoveStep` is the other one: it
rests on `RemoveAtShifts`, a lemma on what removing an element does to the
positions behind it. `OffersInOrder` is a property of single steps from `IInv` states.
`AnswersStand` needs one thing more, `OneQuestion`: handlers have at most one question of an
asker that never cancels, and none once it is answered, so that nobody can answer again.

**KeyGenerator, KeyLoader.** `GeneratorIInv` adds to `GeneratorConsistent` that
`wasBlocking` is false as long as a thread makes something, whatever
`setBlockingEnabled()` sets meanwhile, so that the end of it is told. `Found` of the loader says how far each stage of a load has come: its result is
the definition's as soon as no question is open. What `getKey()` returns is the first of the
providers that can read the data; that there is a first one in a list of any length is
`LeastNumber` again (`getKeyGood`; see ProviderManager below).

**SyncThread.** `IInv` of the proofs module adds to the types who may be where:
`OwnerAt` and `CallerAt` say for each position of the owner and of the caller that
has the mutex what the worker, its queue and the shared results look like, and
`Serialised` that there is one such caller. From it wakeups follow, and each action
is shown to be a step of `RemoteCall` or a stutter, one lemma for each of owner,
caller and worker. Fairness plays no part in these theorems.

**Synchronizer.** The position of the caller and that of the worker determine each other
only until a limit runs out at a bad moment, so `IInv` has two halves. What always holds is
that the mutex and the posted events fit together (`EventsAre`), that the thread exists as
long as it is active, and that `cond_met` is what the caller will rightly report
(`MetIsKnown`). `WorkerAt` and `QuitIsMet` hold while `strayed` is FALSE: the first lists
the pairs of positions, the second says that nothing but the condition or the caller's own
limit has told the loop to quit, which is what makes a wait without limit end with the
condition. `HonestResult` is in the first half: it does not depend on when limits run out.

**Key stores.** `ItemsArePresent` compares two sets of pairs; `Lists` says the same with
quantifiers, and is preserved by `updateStores()` because `Kept` drops what is gone and
`NewStores` adds what is not listed. That no id is reused needs that the
context ids and the tracker ids of the list are below the next ones to be given, and that a
context id was given to one store only (`IdsGiven`). The proof is of the composed system:
every step is one of the tracker's or leaves its variables alone (`ManagerStep`).
`CopiesFollow` rests on `CopyInv`, which says what the manager has read at each place
where it may be interrupted, and on `updateStoresTells`: the tracker changes nothing that
others read without a signal. The update in flight is what makes up for a read that was
overtaken. `HashInOrder` is inductive: `reg()` puts an object behind the others of its store
(`RegisteredInOrder`), `unreg()` turns the order of those that remain round
(`UnregisteredInOrder`). For what a KeyStore is told, `Copies` says that a manager's copy is
the list as it once was, so that no count in it is ahead, and `ItemsMove` that a count grows
exactly with the changes of the entries of a store that is still there. From both follows
`ObjectFollows`: a KeyStore has at least the changes that the copies count (`Seen`), or an
operation is on its way, or it will be started again (`need_update`). `UpdateTells` is the
hard step: a count that is the same in the old and in the new copies is a store whose
object need not be told. TLC has checked this invariant as well, with one object and with two.
Every step of a watcher is one of a manager, and no `sync()` or wait of the application
(`WatcherTakes`), or `ksm_available()`, which opens a KeyStore. `WatcherInv` says that the one
it has opened last is the only valid one, and of the store as it is listed, unless a store has
still to be announced: so `OneObjectEach` holds, and what is proved of KeyStores applies. It
also says that availability is that of the last entries this one has read, whichever
KeyStore's operation has ended.

**QPipe.** A byte is its position in the stream, so the whole of what was written is five
pieces in a row: received, in the reading buffer, in the pipe, left over, not sent.
`ReadInOrder` and `WrittenInOrder` say which positions each has, and where two pieces
overlap: the block that the kernel has taken is still in the writer's buffer until its
notification comes. `WriterShape` and `ReaderShape` tie timers, notifiers and flags
together; without them a second write could begin while the first is reported. The
refinement maps `arrived` to what the reader holds or has given out.

**SecureMessage.** `MessageInv` says that GpgOp, its action and its gpg are there together
(`ActOfGpg`), that a prompt is in one place at a time, posted, in GpgOp's list of events or
with the user (`OnePrompt`), and that the end of gpg is the last event of the list
(`FinishedIsLast`). An operation is open while gpg works on it or its end is in the list, and
until then no end has been told (`OpenIsUntold`), which makes it one end whether a slot or
`waitForFinished()` comes upon it. `OutputFollows` says of an end that is about to be told
what `OutputIsThere` says when it has been.

**GPGProc.** Chunks and units are numbers in the order in which they are made, so each stream
is numbers in a row (`After`), cut into pieces that follow one another: what was read, what
QProcess has and what is left over (`OutputFlow`); lines heard, the part of a line that is
kept and what is in the pipe (`StatusFlow`); what was passed on and what was kept for
`started()` (`ChannelOK`). A step takes from one piece and adds to the next (`AfterGrows`,
`AfterSplits`, `AfterJoins`). `ProcOK` says that a signal in the relay's queue is true of the
gpg of this run; `FinOK` that what is known of its end is; `StatusOK` that the status pipe,
when it is closed, has been read to its end (`LinesHeard`, where `PipeFits` is needed). How
many units are whole lines is the greatest number of a kind, which exists because finite sets
are well-founded (`LastEndIs`). TLC has checked `RunInv` before.

**Console.** `ConsoleInv` has two parts. `ShapeInv` is about the prompt: only one that is shown
has the reference's console and reads (`PromptShape`), one that is being started has read
nothing (`StartShape`), and a failed start is told of only when the input is at its end and
nothing is shown (`Failure`), so that no answer is given twice (`EndsCounted`: the answers and
the end still to come are no more than the calls). `KeysInv` is about the keys: what has been
read since the last answer is what the line that is shown was edited from (`InProgress`), and
what is in the buffer and in the terminal comes next (`KeysKept`), so that the key that ends a
line makes the answer right. `Edited`, what a line means, is a fold: it goes through a table
of what is shown after each key (`Shown`, `EditedIs`), and one more key edits what was there
(`EditedGrows`). TLC has checked both parts before.

**KeyRing.** `StartSteps` says which gpg runs in each step of the start, and `ReadsDirty` that
afterwards one that runs reads a dirty ring.

**ProviderManager.** `ManagerIInv` says of the record of a thread's call what it knew of
the list when it began, what it has seen since, and that the rest of the list it walks is
the end of what it copied (`WalkOK`): so what was passed over could not do it, although the
list has changed since. `InitInv` pairs the holder of an item's mutex with the thread in
`init()`. The scan adds files in turn, a recursive function of their number; that this
function exists and what it returns is proved by the least number for which it would fail
(`LeastNumber`, from the well-foundedness of finite sets, `ScanExists`, `ScanOK`), since the
library's induction theorems cannot be used. This proof has corrected the
model: the cases of `AfterScan` overlapped, and TLC had taken the first of them.

**SoftKey.** `KeyIInv`: an operation that decrypts or signs and waits for a passphrase has an
object of its own (`Alone`), as a signature that has begun has. Two PrivateKeys that share an
object leave one unused, for the clone (`SomeIsFree`, a pigeonhole), and what one of
them then does to an object nobody else sees (`OthersGoOn`).

**TokenStores.** `NextIdIsFree`: as there are no fewer ids than tokens, the search around the ring
finds an id that no item has; this is the pigeonhole principle and arithmetic with `%`.
The rest is that a listing keeps what it has registered until it ends (`ListedStay`), and
that the session belongs to the operation that locked it (`SessionsUsed`).

**TLS.** `TlsInv` has three parts. `Settled` holds all through a call: queued actions are of
the state and different ones, those that change the state come last, and none is for a step
that was emitted (`QueueFits`); the operation belongs to the state, is owed one result and
goes on with an empty queue (`OpFits`); the mode of the context is the one that the state
and the result to come imply (`ModeFits`). `Woken` holds when the call is over: a queue has
its timer, input and output have an update that is under way or asked for, unless a step
blocks them. `Known` says what the application has been told. A lemma for each function
(`UpdateDoes`, `NextLeaves`, `ConnectedLeaves`, ...) says what it leaves behind (`Leaves`), for
whatever the context answers, and the actions follow from these. `NeverOverReports` needs
`BooksInv`: the items of the `LayerTracker` are those of the last chunks, the first is what is
left of its chunk, and what was reported is not more than what the chunks before it held
(`Accounted`). An item never claims more than its chunk holds although the code may count
below zero, because what counts as encoded is in the records that are handed over with it
(`BooksFit`). `Plain`, `Size`, `BytesOf` and `Finished` are folds, which no prover unfolds: that
a fold has a solution, and goes through a table of sums (`Sums`, `Finishes`), is shown by a
smallest counterexample, and what follows of lists of any length by the indices of the tables
(`FinishItemCounts`). TLC has checked both invariants before.

**SASL.** `SaslIInv` has a part that also holds in the middle of a handler, where signals
are emitted and the application answers (`Within`), and two that hold between
events (`QueueTimed`, `Pending`). `PhaseAgrees` and `QueueShape` relate the operation,
the queue and what the application waits for; `UserChecked` says what the three flags of
`scb_checkauth()` remember, so that no result `Success` of a server comes without
the approval; `Flow` counts where the units that the peer has encoded can be, in half
units where a security layer packs them; `PeerDone` says that the peer encodes only once
this side has said "ok". `SessionsConsistent` and the refinement both follow. The
context's operators have lemmas of their own (`UpdateDoes`, `ServerTryAgainDoes`,
`TryAgainDoes`, `TakenUp`, `ResetDoes`), which say what of the context a call changes.

**Only model-checked.**

* Liveness of every module: temporal reasoning with `ENABLED` and fairness is out of the
  prover's reach.
* TLS with `"reset_in_flight"`, `"after_end"` or two steps listened to: the differences of section 6
  lie there.
* `ChainsRight`, `AlgorithmsRight`: questions with one answer, computed by recursive
  operators and functions: what these compute for a list of any length is induction over data.

Every invariant of a passing run, but for these two, is proved. Only `Certificates` declares
RECURSIVE operators, which no prover handles; elsewhere folds and recursive functions are used,
and no module with a theorem reaches `Certificates`.

## 6. Where the code differs from what is said of it

Five differences have a run that shows them:

* **`early_timeout`**: `waitForCondition()` with a limit that runs out before the
  worker is awake finds `loop` null, skips the wait for it to finish
  (`synchronizer.cpp:400`) and returns while the worker has the object; the comment at
  :408 says that the worker is done by then. It needs a short limit and a loaded machine.
* **`tls_greeting`**: application data that comes in one piece with the last
  flight of the handshake (`qca_securelayer.cpp:431`) stays in the context until
  something else arrives or is written. The header promises `readyRead()`
  (`qca_securelayer.h:199`).
* **`entry_gone`**: when the store of a watched entry goes, `unavailable()` is not emitted:
  `ks_unavailable()` (`qca_keystore.cpp:876`) is connected to no signal
  (`qca_keystore.h:381`).
* **`chain_order`**: `validate_chain()` of qca-ossl may accept a chain that OpenSSL has built
  in another order than the one it was asked about (`qca-ossl.cpp:4455`).
* **`unlock_timeout`**: `_ensureAccess()` of qca-softstore clears the key while its time is
  *not* up, and keeps it afterwards (`qca-softstore.cpp:331`); the plugin's README, line 65,
  promises a prompt when the time has passed. A clone has no `dueTime` at all.

The others are stated by definitions in the modules, with the line they contradict,
and no run checks them. Setting one as the INVARIANT or PROPERTY of the module's
configuration shows it.

| Definition | The code | What is said |
|---|---|---|
| `EventSystem!CancelledNotAccepted` | `accepted()` may be true after `cancel()` (`qca_core.cpp:1979`) | `qca_core.h:1579` |
| `EventSystem!ActiveIdsKnown` | a cancelled question is still shown and may be answered | `Q_ASSERT` at `qca_core.cpp:1769`, 1790 |
| `EventSystem!ResponseMeansComplete` | a queued `responseReady()` of one question is emitted while the next is pending (:1992) | `qca_core.h:1592` |
| `Synchronizer!EndsOnlyWhenMet` | a quit posted by a limit that ran out late ends the next wait, which has none (`synchronizer.cpp:403`) | `qca_support.h:367` |
| `KeyStoreTracker!BusyWhileSearching` | `busyStart()` never sets `busy` again (`qca_keystore.cpp:139`, 510) | `qca_keystore.h:734` |
| `KeyStoreManager!WaitLists` | `waitForBusyFinished()` returns at once with the old list (:1636) | `qca_keystore.h:699` |
| `KeyStoreManager!FinishedIsNotBusy` | `busyFinished()` comes before `isBusy()` changes (:1467, 1525) | `qca_keystore.h:772` |
| `UnavailableTold`, `EntriesFresh` without `absorbed` | `sync()` hides changes from `update()` (:1657); of two KeyStores of one store one is told (:1531) | `qca_keystore.h:407`, 409 |
| `WaitReturns` without `sources # {}` | `start()` of an unknown provider leaves the tracker busy for ever (:233) | |
| `TLS!PlainBytesHonest` | -1 of a context is added to `to_net_encoded` (`qca_securelayer.cpp:699`, 737) | `qca_securelayer.h:177` |
| `TLS!ResultsMatchOp` with `"reset_in_flight"` | results posted before a `reset()` arrive after it | `Q_ASSERT` at :773 |
| `TLS!UpdateInSession` with `"after_end"` | `update()` of the context after the session's end (:579) | `qcaprovider.h:2287` |
| `TLS!UnprocessedIsAll` | bytes that come while "Close" is queued are lost (:451) | `qca_securelayer.h:182` |
| `TLS!CloseIsSent` | `close()` of an idle session reaches the context only with the next update (:568, 1062) | `qca_securelayer.h:134` |
| `TLS!StepsInOrder` with more than one listened step | one `continueAfterStep()` releases two steps (:394, 408) | `qca_securelayer.h:568` |
| `TLS!WrittenIsEncoded` with a context that wants to read | what `SSL_write` refused is not tried again (`qca-ossl.cpp:5363`) | `qca_securelayer.h:79` |
| `ProviderManager!InitWhenLoaded` | `init()` is called when a provider is first looked at (`qca_plugin.cpp:610`) | `qca_core.h:678` |
| `ProviderManager!DeinitAll` | a provider never looked at is deleted without `deinit()` (:513) | `qca_core.h:689` |
| `RandomIsAlive` with `UnloadAlone` FALSE | another thread makes the global Random anew between its deletion and the unload (`qca_core.cpp:157`, 164) | |
| `QPipe!EndOfFileIsTold` | a closed writer is reported as `ErrorBroken` (`qpipe.cpp:1810`) | `qpipe.h:228` |
| `QPipe!LeftoverIsUnsent` | `takeBytesToWrite()` includes the block the kernel has (:1984) | `qpipe.h:401` |
| `QPipe!AvailableIsCounted` | counts the wrong buffer after a secure session (:2014) | `qpipe.h:333` |
| `GPGProc!CrashIsError` | a crash is reported by `finished()` (`gpgproc.cpp:485`) | `gpgop.h:61` |
| `InputInOrder` with `Eager` TRUE | input written between the start of gpg and `started()` overtakes what was kept (:759) | `gpgproc.h:63` |
| `StatusBeforeEnd` with `MaxUnits > ReadBuf` | status beyond one read buffer is lost at the end (:490) | |
| `SecureMessage!WaitAlwaysReturns` | `waitForFinished()` after the event loop has seen the end, or with a prompt open, does not return (`qca-gnupg.cpp:1553`) | `qca_securemessage.h:668` |
| `SecureMessage!NoNullAct` with `Patient` FALSE | a call after gpg's end uses a null pointer (`gpgop.cpp:1565`) | |
| `FinishedOnce` with `Patient` FALSE | a rejected prompt finishes the operation again (`qca-gnupg.cpp:1713`) | `qca_securemessage.h:777` |
| `SecureMessage!ReportsAddUp` | bytes accepted are not all told (:1666) | `qcaprovider.h:2818` |
| `SecureMessage!VerifiesAsAsked` | the detached signature of an earlier operation is used (:1374) | `qcaprovider.h:2784` |
| `SASL!OutputIsOfSession` | `reset()` leaves `result_to_net`: output of one session is sent in the next | |
| `SASL!OperationsEnd` with `"mute"` in `ServerStarts` | `startServer()` returns without a result when there are no mechanisms (`qca-cyrus-sasl.cpp:711`) | `qca_securelayer.h:1059` |
| `KeyRing!RingsFollow` | a change that comes after gpg has read the ring and before it ends loses its dirty flag (`qca-gnupg.cpp:1221`) | |
| `Console!LeftIsReturned` | what is left is fetched before the thread has put it there (`console.cpp:342`) | `qca_support.h:540` |
| `Console!NoNull` | a queued signal reaches a reference that is stopped (:727) | |
| `KeyLoader!ArrayIsLoaded` | `loadKeyBundleFromArray()` loads a file without a name (`qca_cert.cpp:2965`), which always ends with `ErrorFile` | |
| `KeyGenerator!GeneratorConsistent` with `Careful` FALSE | `isBusy()` does not see a group that is being made (`qca_publickey.cpp:1181`): a second one takes its place, and a blocking call meanwhile leaves the first without `finished()` | |
| `Certificates!ChainInOrder` | see the run above | |
| `TextFilter!HexInChunks` | the flag of half a byte is never taken back (`qca_textfilter.cpp:187`): `final()` fails though the text was whole | |
| `FileWatch!ChangeIsTold` without `raced` | a file that comes or goes between two looks at it is watched no more | TODO at `dirwatch.cpp:169` |
| `SigningStands` with `Midway` TRUE, or `"sign"` in `Declines` | the clone of a key has no signing key; a refused `startSign()` goes on with a null key, and tells nobody (`qca-softstore.cpp:224`) | |
| `SoftStore!ListFollows` with `Parallel` TRUE | the id changes before the list is made, so that another thread reads part of it, and the update that follows finds the id it knows (`qca-softstore.cpp:1085`) | |
| `TokensConsistent` with `Overlap` TRUE | `keyStores()` deletes items that a prompt has got from `_registerTokenId()` and uses without the mutex (`qca-pkcs11.cpp:1806`) | |

The documentation of SyncThread speaks of `atStop()`, which is `atEnd()` in the code.

Smaller things that were met while the code was modelled, without a definition of their own:

* SASL: bytes given to `writeIncoming()` before the session is authenticated wait for the
  next call; after a failed encoding `out_pending` stays above zero and the updates after it
  follow each other for ever (`qca_securelayer.cpp:1741`); -1 is added to `to_net_encoded`.
* Key rings: `handleChanged()` compares every file with the path of one directory; a ring
  that does not exist at the start is never watched; after a failed gpg the ring stays dirty
  until it changes again; `removeEntry()` of an unknown id uses a null key
  (`qca-gnupg.cpp:1001`).
* Certificates: `chain_complete()` says `ValidityGood` when it stops at a loop; names may
  coincide for certificates with identical subjects (`qca_cert.h:586`); an IPv6 address with too
  few groups is accepted, and one that ends in `::` after seven groups is not.
* KeyLoader asks for a passphrase after any error; it may be deleted while its thread runs.
* qca-softstore: `ensureAccess()` unlocks a clone that is thrown away; data that cannot be
  read is asked for again without end when there is no passphrase; the store id of an entry
  is not that of its store; of a chain only the last certificate's result is looked at.
* qca-pkcs11: `entryPassive()` may return null, which the prompts use
  (`qca-pkcs11.cpp:2036`, 2093); the copy of an entry has no certificate (1300), and entries
  without a key use it (1363); when a certificate of a token is empty the ids of those after
  it are shifted (1886); a PIN of `pin_max - 1` is refused (3086); a provider whose name is
  not that of its library is added but never removed (2857); after a listing that failed the
  list is empty until the next event.

## 7. What is left out of the modelled parts

* EventSystem: the content of questions and answers.
* Synchronizer: `TimerFixer`, which keeps QTimers of the object alive over moves.
* Key stores: writing and removing entries, `scan()`, names
  and the read-only flag, the diagnostic text; of two KeyStores for one store, the run only
  (the module and its theorems have any number).
* TLS: datagram mode, constraints, certificates' validity, resumption.
* ProviderManager: configuration and defaults, reference counts of `init()`,
  `isSupported()`, `unload(name)`, static plugins, versions, diagnostic text.
* QPipe: console mode. The threads for Windows are not built: `USE_POLL` is defined at
  `qpipe.cpp:59`.
* GPGProc: the stderr channel, the `readyRead` and `bytesWritten` signals,
  the values of the error, the argument list.
* SecureMessage: starting while an operation is under way, prompts for cards, the
  formats of messages, decryption and clear signatures, `msecs`.
* SASL: constraints, addresses, lists of mechanisms, realms.
* Console: output and the modes of the terminal. DirWatch only passes a signal on.
* Certificates: host names, CRLs, purposes, times.
* qca-softstore, qca-pkcs11: the texts of entries, the entries of a token, the loading and
  removal of PKCS#11 libraries.

Whole parts that are not modelled are components with status `not_modelled`. Two
kinds of reason: the part has no control of its own (algorithms, conversions,
one call of a library), or it is next in the plan.

## 8. Plan

What is modelled was taken in this order: what every program uses and what has threads or
queues, then what is used less, then algorithms. Left to model, in order of use: the CMS
message context of qca-ossl, which works in a thread like the keys do; the matching of host
names; the texts of entries and the entries of a token; DirWatch, qca-wingss.
