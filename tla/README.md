# Verification of the native PZP

TLA+ models of the webinos native PZP, with TLC runs that check them on small
instances and TLAPS proofs for every instance.  The program (about a thousand
lines of C under `src/src`, on top of a vendored PolarSSL 1.2.8) searches its
network for a peer PZP, makes a key and a certificate request, connects to the
peer over TLS, sends the request and saves the certificate it gets back.

File names below are relative to `src/src`; `ssl_tls.c`, `net.c` and the like are
in `ssl/polarssl/library`.

`ssl/polarssl/include/polarssl/config.h` compiles a part of the library only: no
server (`SSL_SRV`), no session cache, no GCM, ARC4, DES, Camellia or Blowfish, no
`md.c`, MD2 or MD4, no PKCS#5, PKCS#12 or DHM.  The modules model the sources as they
stand, with these parts in them, because the other end of a connection runs them and
a change of `config.h` puts them in.  `Bignum` takes the limb of
`POLARSSL_HAVE_INT8`, the smallest of those `bignum.h` offers.

## 1. Inventory

### Components, their state and their operations

| Component | Source | State | Operations |
|---|---|---|---|
| Enrolment run | `main.c`, `ssl/connect.c` | the key in memory, the files `pzp_csr` and `certificate.json`, one connection | `initializePzp`, `connectPzp` |
| Local discovery | `localDiscovery/localDiscovery.c` | a multicast socket, the time `select` still waits, the kernel's queue, the caller's address buffer | `setMulticastConnection`, `findPzp` |
| Key and request | `ssl/certificate.c` | none of its own | `generatePrivateKey`, `generateCertificateRequest` |
| Configuration files | `common/configuration.c` | files, the tree `~/.webinos` | `readFile`, `readConfig`, `writeConfig`, `getCSR`, `getFriendlyName`, `getDeviceName`, `checkConfiguration` |
| JSON handler | `jsonHandler/json.c` | linked lists | `parseJSON`, `stringifyJSON`, `createJSONString`, `checkMessageType` |
| Logger | `common/logger.c` | none | `logPrint` |
| TLS record layer | `ssl_tls.c` | `out_left`, `out_msg`, `in_left`, `in_msg`, `in_offt`, counters | `ssl_read`, `ssl_write`, `ssl_close_notify`, `ssl_read_record`, `ssl_write_record`, `ssl_fetch_input`, `ssl_flush_output` |
| Sockets | `net.c` | a descriptor | `net_connect`, `net_send`, `net_recv`, `net_close` |
| TLS handshake | `ssl_cli.c`, `ssl_srv.c` | `state`, handshake parameters | one function per message |
| Session cache | `ssl_cache.c` | a bounded chain of sessions | `ssl_cache_get`, `ssl_cache_set` |
| Record protection | `ssl_tls.c` | the transforms of both directions: keys, IVs, counters | `ssl_derive_keys`, `ssl_encrypt_buf`, `ssl_decrypt_buf` |
| Random numbers | `ctr_drbg.c`, `entropy.c`, `entropy_poll.c` | the pool and each source's share, the generator's key, counter and `reseed_counter` | `entropy_func`, `entropy_gather`, `ctr_drbg_init`, `ctr_drbg_random_with_add`, `ctr_drbg_reseed`, `ctr_drbg_update` |
| Digests | `md5.c`, `sha1.c`, `sha2.c`, `sha4.c`, `md2.c`, `md4.c`, `md_wrap.c` | a context: state, byte count, buffer, pads | `starts`, `update`, `finish`, and the same of the HMAC |
| Ciphers | `cipher.c`, `cipher_wrap.c`, the modes in `aes.c`, `gcm.c` | a context: key, IV, `unprocessed_data` | `cipher_setkey`, `cipher_reset`, `cipher_update`, `cipher_finish`, `gcm_crypt_and_tag`, `gcm_auth_decrypt` |
| RSA | `rsa.c` | a key | `rsa_gen_key`, `rsa_check_privkey`, `rsa_public`, `rsa_private`, signing, encryption and their inverses |
| Integers | `bignum.c` | sign and limbs | the arithmetic, texts, files, primes |
| Certificates | `x509parse.c`, `asn1parse.c` | chained lists of certificates and revocation lists | `x509parse_crt`, `x509parse_crl`, `x509parse_crtpath`, `x509parse_verify`, `x509_free` |
| Keys and requests as files | `x509parse.c`, `x509write.c`, `asn1write.c`, `pem.c`, `base64.c`, `pkcs5.c`, `pkcs12.c` | none | `x509parse_key`, `x509parse_public_key`, `x509parse_dhm`, `x509_write_key_der`, `x509_write_cert_req`, `pem_read_buffer` |

### How they interact

`main` calls `initializePzp`, which reads `config.json`, makes the key, writes
`pzp_csr`, calls `findPzp` and passes the machine name and the address it found
to `connectPzp`.  That one ignores what `net_connect` returns, composes the
request through the JSON handler from `pzp_csr`, `config.json` and the machine
name, and hands it to `ssl_write`; the handshake takes place inside that call.
Then it calls `ssl_read` until the peer closes, parses what each call returns as
one message, and saves the one that is a certificate with `writeConfig`.

The library reaches the socket through two callbacks, `f_send` and `f_recv`
(`net_send` and `net_recv`), which may take or give less than they were asked
for, may block, and may say that they would block.  `ssl_read` may itself send:
it answers a HelloRequest with an alert through the same output buffer in which
an unfinished `ssl_write` keeps its record.

There are no threads and no signal handlers.  Concurrency comes from the
network, from the peer, from the two ends of a connection, and from runs of the
program that die anywhere and are started again over the files they left.

### What is hard

* Datagrams that are lost, late or in any order, and a question that is sent
  once (`localDiscovery.c:129`) under a waiting time that decays (`:135`).
* Results that are ignored: `net_connect`, `ssl_write`, `sendto`, `fopen`.
* Files that are emptied before they are written, and a key that is never written.
* Calls that would block in the middle of a record, and their repetition.
* Two producers for one output buffer; both ends closing while the other writes.
* A peer that answers in two records, closes early, or never.

The hazards, each at its line and with the properties aimed at it, are listed in
`PROJECT.json`.

### What makes each component correct

* Discovery: what it returns belongs to one peer that offers the service; a
  running peer is found; an answer that has arrived ends the search.
* Record layer: what `ssl_read` returns is a prefix of what the other end passed
  to `ssl_write`; success is reported only for bytes that have left; the peer's
  records are never refused; the end of the stream is told only behind all of it;
  every byte written arrives if nobody closes.
* Enrolment: the peer is asked to sign the key of this run and no other; the
  request reaches the machine it names; what is saved is for the key in memory;
  on a good network the run ends with its certificate.
* Configuration: a directory tree is created in its order and by one program; what
  it leaves half made, nobody completes.
* JSON: what a function of the program or a peer has written is read as it was
  meant; every text with a delimiter at its end is parsed to its end.
* Handshake: both ends agree on version, session and keys, or none of them goes on; an
  end that requires a certificate has verified one of its peer; it ends.
* Session cache: it is bounded, and it holds and returns sessions that were negotiated.
* Record protection: the receiver is handed what was sent, in order and once.
* Random numbers: a seed is made of what every source gave since the last; it does
  not serve for ever; no block of the generator comes twice under one key.
* Digests and ciphers: the result depends on the whole input and on nothing else,
  however it was cut into calls, and is the standard's.
* Certificates: what is read is what was written and lies inside the bytes; a chain is
  accepted only if each link of it is good.
* Keys: a generated key works; a file opens for its password and gives no bad key.
* Integers: arithmetic on limbs is arithmetic.

## 2. Modules

| Module | Models | Used by |
|---|---|---|
| `Discovery` | `findPzp` and the multicast network | `Enrolment` (INSTANCE) |
| `ByteStream` | what `ssl.h` promises of `ssl_read` and `ssl_write` | `RecordLayer` (refinement) |
| `RecordLayer` | both ends of an established connection | |
| `Enrolment` | runs of the program, over `Discovery` | |
| `JsonText` | the JSON handler, with the memory it reads and writes outside of | `Configuration` |
| `ConfigTree` | `checkConfiguration` in several programs | `Configuration` |
| `Configuration` | every text of a run, through the JSON handler | |
| `SessionCache` | `ssl_cache.c` | `Handshake` |
| `Handshake` | client and server of the TLS handshake, over many connections | |
| `RecordProtection` | keys, MAC, padding and encryption of records, and a network that attacks them | `Library` |
| `Random` | entropy sources, pool and generator | `Library` |
| `Digest`, `Cipher` | buffering, padding and modes over opaque compression functions and block ciphers | `Library` |
| `CertChain` | `x509parse_verify` | `Library` |
| `Der` | reading and writing of DER, byte by byte | `X509Parse`, `Pbe` |
| `X509Parse` | certificates and revocation lists, field by field | `X509Keys` |
| `X509Lists` | the chained lists that files of them are read into | `Library` |
| `Pem`, `Pbe` | Base64 and PEM; encryption of keys under a password | `X509Keys` |
| `X509Keys` | key files and the certificate request | `Library` |
| `Rsa`, `RsaPadding` | keys and operations; the blocks around messages and digests | `X509Parse`, `Library` |
| `Bignum` | arithmetic on limbs | `Library` |
| `Binding` | a value with a name (see below) | most of the above |
| `Library` | the parts of the library below the handshake, one at a time | |
| `DiscoveryProofs`, `RecordLayerProofs`, `EnrolmentProofs`, `ConfigTreeProofs`, `HandshakeProofs`, `LibraryProofs` | theorems; `RecordLayerProofs` ends with the refinement of `ByteStream`; `LibraryProofs` is on `Random` and `RecordProtection` | `HandshakePeers` |
| `HandshakePeers` | the types, the peers and the keys of a handshake, from `HandshakeProofs` | `HandshakeStep` |
| `HandshakeStep` | that two ends stay in step, from `HandshakePeers` | |
| `MCDiscovery`, `MCRecordLayer`, `MCEnrolment`, `MCConfiguration`, `MCHandshake`, `MCLibrary`, `MCDocuments` | instances for TLC; `MCDocuments` builds certificates and lists together with the fields a reader should find | |

Operators whose comment begins with "Defect:" are no part of the model.  Each is
a changed form of the definition behind it, used to see that a property would
notice the change (`mutants` in `PROJECT.json`).

`With(value, LAMBDA x : ...)` (module `Binding`) is a LET that TLC evaluates, and its
coverage statistics count, once.

### Discovery

| State | Code |
|---|---|
| `pc` | where `findPzp` is: before `setMulticastConnection`, before `sendto`, in the `while(1)`, returned |
| `sock` | `socketDesc`; `"stdin"` is the 0 that stands for a failure |
| `timer` | `t`, which Linux's `select` changes: all of it, part of it, zero |
| `rcvq` | the datagrams the kernel holds |
| `name`, `ip` | the returned pointer and the caller's buffer |
| `up`, `asked`, `inflight` | the network and its responders (external) |

One action per way through the loop: `SelectTimeout`, `SkipDatagram` (no
response, or another service) and `TakeResponse`.  The walk over the records is
the operator `WalkResults`: it keeps only what the code can tell apart, an A record
and the length of the others.  Behind a record of at least 256 bytes the walk
stands in the middle of data, and what it finds there is left open.

Descriptor 0 is watched instead of a socket when binding fails.  Then no datagram
arrives and the search does not end; input on descriptor 0 is not modelled.

### RecordLayer

The state is per end.  `call` says which library call is in progress; every
`f_send` and every `f_recv` is a step, so the ends interleave inside their calls.

| State | Code |
|---|---|
| `records`, `outLeft`, `atHeader` | `out_msg` with its history, `out_left`, and which of the two `f_send` of the loop in `ssl_flush_output` is next |
| `writing`, `acked` | the arguments of the `ssl_write` that has not succeeded yet; the sum of what it returned |
| `got`, `inLeft`, `nread` | the bytes of the socket consumed, `in_left`, records completed |
| `pending`, `rcvd`, `eof` | `in_msg` behind `in_offt`; what `ssl_read` returned; whether it returned 0 |
| `wire`, `shut` | what the socket took; `net_close` |
| `ended` | why the application uses the connection no more |

Application data are the positions of a stream and a byte on the wire is "byte j
of the sender's k-th record": anything else fails the MAC, and `Intact` is that
test.  Sizes are kept (`HdrLen`, `MacLen`, `MaxContent`), for partial sends and
the arithmetic of `out_left` are what the module is about; the padding of block
ciphers is not.  The server end is modelled by the same library.  Where it can
make a difference, a different stack is allowed by `HelloFrom`: PolarSSL never
sends a HelloRequest by itself.

The application is one that follows `ssl.h`: it repeats a call that would block
with the same arguments, and stops using a connection that has failed.  The PZP
calls `ssl_write` once on a blocking socket, where this makes no difference.

`ByteStream` states the promise alone, and `ImplementsByteStream` says that
`RecordLayer` keeps it, with `sent` taken as the bytes in `records`.

### Enrolment

| State | Code |
|---|---|
| `pc` | which call of `initializePzp` or `connectPzp` is next; `"hung"` is a `parseJSON` that does not return |
| `run`, `key` | the run's number stands for its key; `key` is empty when no run has it |
| `csrFile`, `saved` | for which key `pzp_csr` and `certificate.json` are, empty when the file is empty; `Torn` when `certificate.json` holds what was made of a part of an answer |
| `link`, `hub` | what `server_fd` holds: nothing yet, the connection, a closed descriptor, or a number nobody set; whom the connection is to |
| `request`, `sent` | the composed message; whether `ssl_write` sent it |
| `inbox`, `hubSent`, `hubClosed` | the peer's records and its end of the connection (external) |
| `searching`, `sock`, ... | the variables of `Discovery` |

`FindPzp` is a step of `Discovery` (`D!FindPzp`), and `Network` a step of its
surroundings; the two modules share the variables.  TLS is one record in, one
record out: `RecordLayer` shows that records arrive whole, once and in order.

A run dies at any moment when `Crashes` is set.  That stands for a kill and also
for the accesses of `json.c` outside its buffers: the newlines of a request
overrun the buffer that `findValue` allocates (`json.c:91`), which does or does not
bring the program down.  An answer may come in two records (`SplitReply`), and each
is parsed as a message (`connect.c:89`).  A part may be passed over, may crash, or may keep
`parseJSON` in its loop.  If the type `signedCertByPzp` is in it and it is cut behind a
delimiter, `checkMessageType` knows it for the certificate, and `writeConfig` empties
`certificate.json` and writes what was made of the part (`Torn`), or all of the
certificate if only the end of the message is missing.

`net_connect` goes to whatever the four bytes are that `findPzp` took for an address.
Behind a long record they are misread (`localDiscovery.c:192`), and may be the
address of nobody or of any peer (`Behind`), which then gets a request made out to
another one.

At this commit `ssl/connect.c:92` reads `writeConfig("certificate.json);`, which is
no C.  It is taken for `writeConfig("certificate.json", json)`.

### JsonText, ConfigTree and Configuration

| State | Code |
|---|---|
| `stack` | the calls of `parseJSON` in progress: the text left, the list so far, the item being made |
| `status` | is the parser running, done, or has it read or written where it must not |
| `skipped`, `spoiled` | how far stray reads have moved, and whether a buffer was overrun beyond its chunk |
| `phase`, `input`, `config`, `subject`, `given`, `wire`, `save` | where the run is, the texts it meets and what it has made of them |
| `dirs`, `at`, `answer` | the directories that exist, where each program is in `listFile`, what it was told |

A text is a sequence of characters in which every distinction of `json.c` occurs: white
space, braces, brackets, commas, colons, quotes, newlines, letters.  What
`removeStartingWhiteSpaces` reads behind the caller's pointer (`json.c:33`) may be
anything; `MaxSkip` says how many characters it may skip.  A buffer of `findKey` or
`findValue` is as long as `malloc` rounds it (`MinChunk`, `Granule`); an overrun inside
does no harm, one beyond sets `spoiled`, and the run may die from then on.

`Configuration` follows a run through its texts in the order of `initializePzp` and
`connectPzp`, each action ending where the parser starts again.  `checkConfiguration`,
which `main` keeps in a comment, is a behaviour of its own: programs that create the
tree in one home directory, fail at any `mkdir` and die.

### Handshake and SessionCache

| State | Code |
|---|---|
| `ctx[e]` | the `ssl_context` of each end: `state`, versions, the session in use and the one being negotiated, `transform_in`, `transform_out`, checksums, verify data, `verify_result`, the record in `out_msg`, the message in `in_msg`, and why it ended |
| `net[e]` | the records under way to an end, each with the key it was written under |
| `saved` | the session each client's application has kept |
| `chain`, `now` | `ssl_cache_context` and the clock |
| `origin` | history: the sessions for which the server sent its Finished in a full handshake |
| `conf`, `budget` | the settings of both applications, and the bounds |

An action is one turn of the switch in `ssl_handshake_client_step` or
`ssl_handshake_server_step`; `Flush` is the `ssl_flush_output` at its beginning, so that
calls may come back with WANT_READ or WANT_WRITE between any two turns.  Cryptography is
made of terms: equal terms are equal secrets, and a record is of use to who holds its
key.  `Reset` keeps what `ssl_session_reset` keeps.

### The library (`Library`)

The parts share no object, so a behaviour of `Library` is one of one part, chosen in
`Init`, with the others at rest.  What one part uses of another it uses as operators.

| Module | A behaviour |
|---|---|
| `RecordProtection` | records are sent under one suite and version; the network cuts, damages, retypes, drops, repeats, exchanges and splices them; the receiver decrypts |
| `Random` | calls of the generator, each of which may poll the sources for a seed; a poll gives much, little, nothing or an error |
| `Digest` | a context is started and restarted, as digest or HMAC, and fed in pieces |
| `Cipher` | a context encrypts a text in pieces and decrypts the result in other pieces; GCM seals, is damaged and opens |
| `CertChain` | one call of `x509parse_verify`: every peer list, trusted list, revocation list, name and failing callback of a group |
| `Rsa` | a key is drawn until one fits |
| `RsaPadding` | a block is made, altered in a byte, and read for the same or another purpose |
| `Pem` | bytes are written as text, the text damaged, and read with some password |
| `X509Parse` | a document is damaged in any byte or cut at any place, and parsed |
| `X509Keys` | a key or a request is written in some form and buffer, damaged, and read |
| `X509Lists` | files and directories are read into the lists, one after the other |
| `Bignum` | operations on two registers, each compared with the integers |

Compression functions, block ciphers, GCM's multiplication and the masks of PKCS#1
v2.1 are opaque: what counts of them is what goes in.  Where bytes must be bytes (`Pbe`,
`Pem`, `Cipher`) small stand-ins take their place.  Lengths are the code's in
`RecordProtection`, `Digest`, `Random` and `RsaPadding`; `Cipher` and `Pbe` have shorter blocks, `Rsa`
small primes, and object identifiers and dates are shortened in `X509Parse`.

## 3. Runs

All runs have `CHECK_DEADLOCK FALSE`: the search, the connection and the program
end, and the model stops with them.

| Run | Shows |
|---|---|
| `disc_search` | whatever boots when, the PZP itself included, and whatever other peers lose, one question finds a peer that loses nothing, or its announcement is taken; name and address are one machine's; an answer that has arrived ends the search however late it is |
| `rec_stream` | one direction, every partial or blocked send and receive, every place of a close: safety, the inductive invariant, the refinement of `ByteStream`, and the arrival of what was reported as written |
| `rec_duplex` | both ends write, read and close at once, a header may be cut and a record empty: what is delivered is a prefix, and its end is no false one |
| `rec_hello` | what still holds when a HelloRequest is refused: nothing is reordered or repeated |
| `enr_crash` | two runs that may die anywhere, losses, bad responses, misread addresses, a peer that fails or cuts its answer: whose key is requested, from whom, and what is saved |
| `enr_live` | on a good network every run saves its certificate unless it is refused, and a run whose connection is over ends |
| `hs` | every combination of verification mode, certificate, version and suite, renegotiation, broken connections, and resumption from a cache that expires and is full: agreement, verification, rejection, and the end of every handshake |
| `cfg` | every text of a run, parsed as it was meant as long as luck holds; the request needs none; the directory tree under programs that fail and die |
| `library` | the twelve parts of the library |

The properties of `Library` are named for what they promise, and each is a conjunction
of the parts' own: `RecordsProtected` (`RecordProtection`), `SeedsAreFresh` (`Random`),
`PrimitivesAreStandard` (`Digest`, `Cipher`), `ChainsAreJudged` (`CertChain`), `RsaHolds`
(`Rsa`, `RsaPadding`), `CertificatesAreRead` (`X509Parse`, `X509Lists`), `KeysAreRead`
(`X509Keys`, `Pem`) and `LimbsAreIntegers` (`Bignum`).  `IInv` of `RecordLayer` contains its
`TypeOK` and implies `AckedIsOnWire`; `TypeOK` of `Enrolment` contains `Discovery`'s, and that of
`Handshake` the bound of the cache.

Three runs find a violation of what a comment says:

| Run | Sentence | What the code does |
|---|---|---|
| `disc_repeat` | "Every 30 sec look for a PZP" (`localDiscovery.c:68`) | it asks once; after 30 seconds it only polls |
| `rec_hello_data` | "Read at most 'len' application data bytes" (`ssl.h:1026`) | four bytes of a refused HelloRequest are returned as data |
| `hs_peer` | "Restore peer certificate" (`ssl_cache.c:76`) | the slot of an expired entry is reused with the certificate it held (`:117`), which is handed out with the session of a client that has none |

Other differences between text and code, without a run of their own:

* `webinos.h:66`, "set IP address where service is found": a response without an A
  record ends the search with an empty buffer.  `webinos.h:67`, "@returns machine
  name": a response with the bare service for its owner name gives NULL, which
  `connectPzp` reads through.  Both are steps of the models.
* `ssl.h:1044`, "the number of bytes written": when `ssl_read` refuses a HelloRequest
  while an `ssl_write` is pending, the alert takes the place of the record, and the
  repeated `ssl_write` reports its bytes.  `AckedIsOnWire` fails with `HelloFrom` set.
* `ssl_tls.c:1731`, "Flush any data not yet written": behind a header that `f_send`
  took in part, the loop goes on with the address of the payload.  `NeverRefused`
  fails with `ShortHeader` set.
* `ssl.h:1032`, "0 for EOF": two empty records in a row make `ssl_read` return 0.
  `EofMeansEnd` fails with 0 among `WriteLens` and three records; with the two that
  `rec_duplex` has it shows that one empty record is no end.
* `ssl_tls.c:2096`, "Ignore non-fatal alerts, except close_notify": `ssl_read` turns
  any warning into an error.
* `x509parse.c:3322`: the path length of an intermediate certificate is never looked at;
  `VfOnlyChains` is stated without it.
* `bignum.h` on `mpi_gcd`, `mpi_inv_mod`, `mpi_mod_int`, `mpi_read_file`: the greatest common
  divisor of A and 0 comes out as 0, an inverse to the modulus 1 is looked for without
  end, a remainder by more than half a limb is wrong, and a file's minus is lost.
  `BnLikeIntegers`, `BnModular` and `BnReadsBack` name these arguments.
* `rsa.h` on PKCS#1 v1.5: an empty message is encrypted to what cannot be decrypted;
  with v2.1 a digest that leaves no room for the salt is signed to what cannot be verified.
* `x509write.c:264` ignores what `rsa_pkcs1_sign` returns, and `:275` copies before it asks
  for room.  `certificate.c:66` takes a negative result for a length, and `:59` leaves the last
  name's `next` unset.
* `cipher.c:517`: a padding of 0 bytes is accepted.  `gcm.c:314` ignores a refusal.
* `x509parse.c:1500`: a PEM object with bad base64 is passed over and not counted.
* `x509parse.c:1733`: a revocation list whose `nextUpdate` has the tag of a time and a length
  that goes too far is not refused; `x509parse_crl` takes any such failure for a field that
  is absent and parses on behind the length (`CrlNames`; `MCDocuments` has such lists).
* `ctr_drbg.c:221`: `ctr_drbg_update` hands any length to `block_cipher_df`, whose buffer
  holds the longest seed input.  `RdReadsInBuffer` says that nothing else overruns it.  What follows
  is undefined, and a behaviour of `Random` ends there (`rdOver`).
* `ssl_tls.c:1245`: under a GCM suite, or a NULL suite, the length of a record that is too short
  wraps around.  `RpNoWrap` says that it does under no other.
* `configuration.c:80`: `writeConfig` empties `certificate.json` before it writes it, so a run that
  dies in between has lost the older certificate.  `SavesOwnCertificate` allows that; it says
  for what the file may be emptied and what may be in it afterwards.

### Bounds

* Discovery: three responders, one per kind of owner name; each sends a
  response once per question and boot, so that two matching ones, and a matching
  one on either side of a foreign one, occur.  Response record lists of at most
  two; the walk has no memory beyond the first A record or long record.
* RecordLayer: a header of 2 bytes and a MAC of 1, so that each can be cut in every
  place that matters; writes longer than `MaxContent` (`rec_stream`), shorter too
  and empty (`rec_duplex`, `rec_hello`); reads that leave a part of a record.  `MaxRecords` bounds how many
  records `ssl_write` prepares; two are what it takes for one to be overtaken by or
  confused with the next, and the alerts come on top.
  The proofs do without these bounds.
* Enrolment: two runs, so that a run finds the files of another; one connection
  per run, as in the code; at most one message before the certificate; an answer in one
  record or two, whose cut leaves the type in the first, in the second or in neither.

* Handshake: two clients, one slot in the cache, up to three connections and two ticks of
  the clock, so that a session is resumed, expires, and its slot is reused; each other
  hazard has settings of its own (`MCHandshake`), one at a time.
* Configuration: two programs for the tree; texts of a few items, flat and nested,
  written by the program's own functions, compact and spaced; stray reads that skip up to
  two characters.
* RecordProtection: four records and one act of the network; messages that end before,
  at and behind the end of a block; each family of suites in each version.
* Random: an interval of one request and a counter of three binary digits, so that a
  reseed is due and the counter wraps in every place; lengths around each limit, and
  one input that is longer than any seed.
* Digest, Cipher: lengths around a block and around the place of the length; a word of 256
  values for the byte count; three calls, two uses of one context.
* CertChain: a peer's list of up to three certificates, each with one thing wrong; two
  trusted ones; a revocation list.  Names of up to six characters with dots and stars.
* Rsa, Bignum: primes of four and five bits; integers of up to three limbs around the
  seams of limbs, two operations in a row.
* X509Parse, X509Keys: every byte of every document, with the values that change a length
  or a sign; every cut.

### Fairness

* Discovery: `findPzp` is a loop that does not block for good; a datagram under way
  arrives unless it is lost, and a running peer answers.  Nothing makes a peer boot.
* RecordLayer: an application that repeats calls which would block, as `ssl.h`
  demands, and a socket that does not refuse for ever what keeps being offered.
  Fairness is on the steps inside calls and on reading and repeating; nobody has
  to start a write or to close.
* Enrolment: the program runs on; a peer that holds a request signs it.  Nothing
  makes a peer close, and a stray descriptor deliver anything.
* Handshake: as long as an end can take a turn, one of the two does: the applications
  call again after WANT_READ and WANT_WRITE.  Nobody has to connect, write or close.
* Configuration: the parser waits for nobody.  `FairSpec` writes weak fairness of its
  steps out, with `status = "parsing"` for ENABLED: every step of the parser is possible
  exactly then, and TLC evaluates it much faster.

## 4. Proofs

TLAPS checks, for every value of the constants:

| Theorem | Statement | Under |
|---|---|---|
| `DiscoveryProofs!TypeCorrect` | `Spec => []TypeOK` | |
| `DiscoveryProofs!ReturnsOnePeerAlways` | `Spec => []ReturnsOnePeer` | no response has a record of 256 bytes or more |
| `RecordLayerProofs!TypeCorrect` | `Spec => []TypeOK` | |
| `RecordLayerProofs!IInvAlways` | `Spec => []IInv` | `Calm` |
| `RecordLayerProofs!NeverRefusedAlways` | `Spec => []NeverRefused` | `Calm` |
| `RecordLayerProofs!NothingReorderedAlways` | `Spec => []NothingReordered` | |
| `RecordLayerProofs!PrefixAlways` | `Spec => []DeliveredInOrder` | `Quiet` |
| `RecordLayerProofs!OnWireAlways` | `Spec => []AckedIsOnWire` | `Quiet` |
| `RecordLayerProofs!EofMeansEndAlways` | `Spec => []EofMeansEnd` | `Quiet`, `Filling` |
| `RecordLayerProofs!StreamRefined` | `Spec => ImplementsByteStream` | `Quiet`, `Filling` |
| `EnrolmentProofs!TypeCorrect` | `Spec => []TypeOK` | |
| `EnrolmentProofs!IInvAlways` | `Spec => []IInv` | |
| `EnrolmentProofs!ReachesItsAddresseeAlways` | `Spec => []ReachesItsAddressee` | |
| `EnrolmentProofs!AlwaysTheAddressee` | `Spec => [](sent => request.to = hub)` | no response has a record of 256 bytes or more |
| `EnrolmentProofs!RequestsOwnKeyAlways` | `Spec => []RequestsOwnKey` | |
| `EnrolmentProofs!SavesOwnCertificateAlways` | `Spec => SavesOwnCertificate` | |
| `ConfigTreeProofs!TreeTypeCorrect` | `TreeSpec => []TreeTypeOK` | |
| `ConfigTreeProofs!TreeIsPrefixAlways` | `TreeSpec => []TreeIsPrefix` | |
| `ConfigTreeProofs!OneCreatesAlways` | `TreeSpec => []OneCreates` | |
| `ConfigTreeProofs!NeverRepairedAlways` | `TreeSpec => NeverRepaired` | |
| `HandshakeProofs!SessionsAreNegotiatedAlways` | `Spec => []SessionsAreNegotiated` | |
| `HandshakeProofs!CacheBoundedAlways` | `Spec => []CacheBounded` | |
| `HandshakePeers!TypeCorrect` | `Spec => []TypeOK` | |
| `HandshakePeers!RejectedByBothAlways` | `Spec => []RejectedByBoth` | `NullIsNoSession` |
| `HandshakePeers!PeerIsVerifiedAlways` | `Spec => []PeerIsVerified` | `NullIsNothing` |
| `HandshakePeers!AgreementAlways` | `Spec => []Agreement` | `NullIsNoKey` |
| `HandshakeStep!StepInvAlways` | `Spec => []StepInv` | `NullIsNull` |
| `HandshakeStep!NeverOutOfStepAlways` | `Spec => []NeverOutOfStep` | `NullIsNull` |
| `HandshakeStep!IdentifiedAlways` | `Spec => []Identified` | `NullIsNull` |
| `LibraryProofs!FreshEntropyAlways` | `RdSpec => []RdFreshEntropy` | |
| `LibraryProofs!SeedNotWornOutAlways` | `RdSpec => []RdSeedNotWornOut` | the interval is at least 1 |
| `LibraryProofs!ReadsInBufferAlways` | `RdSpec => []RdReadsInBuffer` | the longest seed input is whole blocks and no shorter than the longest additional input |
| `LibraryProofs!NoBlockTwiceAlways` | `RdSpec => []RdNoBlockTwice` | `CounterSuffices` |
| `LibraryProofs!SeedsAreFreshAlways` | `RdPartSpec => []SeedsAreFresh` | those of the four above |
| `LibraryProofs!OnlyWhatWasSentAlways` | `RpSpec => []RpOnlyWhatWasSent` | |
| `LibraryProofs!NoWrapAlways` | `RpSpec => []RpNoWrap` | |
| `LibraryProofs!UndamagedAcceptedAlways` | `RpSpec => []RpUndamagedAccepted` | |
| `LibraryProofs!RecordsProtectedAlways` | `RpPartSpec => []RecordsProtected` | |

`Quiet` says that nobody sends a HelloRequest, `Calm` that moreover `f_send` takes a header
whole, and `Filling` that nobody writes an empty buffer.  None can be dropped: with a
header cut in two `NeverRefused` is false, with HelloRequests `DeliveredInOrder`
(`rec_hello_data`) and `AckedIsOnWire`, and with empty writes `EofMeansEnd`, as said above.
`NullIsNoSession`, `NullIsNothing` and `NullIsNoKey` say that the NULL of C is not a session's
record, not a session's id and not a pair of an end and its keys; `NullIsNull` that it is
none of the last two, no other pair either, and no record of a message.  `CounterSuffices` says that the counter has a value for every block of the
longest request and of the update behind it; it has 256 to the 16th, and needs 67.
`ctr_drbg.h`'s values meet the other hypotheses on `Random`.  `RdPartSpec` and `RpPartSpec` are
what `Library` sees of the two modules: a part in use from the beginning, or never.

The assumptions on the constants are the named ASSUMEs of the modules: the ends are
two and each other's peer, header, MAC and content lengths are positive, owner
names and record lists are of their types, thresholds and lengths of entropy are
natural numbers, and the suites of records are among those of `ssl_derive_keys`' table.

**Record layer.**  `TypeOK` is inductive together with `Known`: `out_left` does not
exceed the newest record, and no more is consumed than was sent.
`IInv` describes the whole way of a byte under `Calm`: `Layout`, the records of an end lie
one behind the other, in offsets and in stream positions; `WireLength` and
`WireBytes`, the wire holds exactly their bytes except for the last `out_left`;
`HeaderFirst`, a cut header never meets the payload's `f_send`; `Position`, the reader
stands `in_left` bytes behind the end of the record it completed last; `Data`, what was
returned and what is pending are the stream up to that record; `Unfinished`, `acked` lags
behind by the newest record only while it is being written; and `CallOK`, what each call
in progress knows.  That no record is refused follows from it.

The second half of `RecordLayerProofs` goes on without the half of `Calm` on headers, where records may be
damaged on the wire and the layout of `IInv` is lost.  It takes three invariants, each
on top of the one before:

1. `SocketInv`, which needs no hypothesis: which record each byte of the wire belongs to,
   which records another one has cut (`Uncut`), that a reader is behind records that
   follow each other and has of them, in ascending order, at most what they carry
   (`Following`), and where the next record of the sender goes on (`Resumes`).
   `NothingReordered` follows.
2. `StreamInv`, under `Quiet`: only an alert cuts a record, and no data come behind one
   (`Chain`); between two writes everything is acknowledged (`Settled`); what the
   reader has is the stream up to the records it has read (`Prefix`); and no call goes on
   in a connection that is over (`Calling`).  `DeliveredInOrder` and `AckedIsOnWire` follow.
3. `EndInv`, under `Filling` as well: an end that was told of the end of the stream has everything
   that was reported as written, and its peer writes no more (`Over`).  Only without empty
   writes does the 0 of `ssl_read` mean that end.  `EofMeansEnd` follows.

The refinement of `ByteStream` is then a case distinction over the actions: `sent` is
what the records issued carry (`SentMap`), the end of the stream has been seen by whom `ssl_read`
told it (`OverMap`), and every step maps to one of `ByteStream`'s or to none.

**Enrolment.**  `KeyInv` says from which call of a run on the key, the file and the
request are those of this run; `InboxInv` that each certificate under way, and each part
with its type, is for the run's key, and that there are such parts only of answers that are
cut; `AddressInv` that name and address are one machine's or the address was misread, and that a
connection to a peer is one to the machine with the address, unless it was misread.  A
death anywhere resets what the first speaks of.  `ReachesItsAddressee` therefore has one exception,
the misread address.  `AlwaysTheAddressee` shows that there is no other: without long records
`Discovery`'s theorem, carried over, says that nothing is misread.

**Directory tree.**  That one program creates follows from where the tree ends:
`Frontier` says that a program below `.webinos` stands exactly behind the last directory
there is.  So no two stand at different places, and `mkdir` of `.webinos` lets one
through.

**Handshake.**  A session goes from the server's context into its cache, and from the
client's into what the application keeps, at the end of a handshake.  The server's
end of one is its own doing; the client has to learn of it, and learns it from the
Finished of the server.  The invariant says what is known on the way.  In `EndOK`, for an
end that is still connected: `HelloSecond`, the second message of the transcript is the
ServerHello, and it names the session that is negotiated; `ResumesShort`, a resumed
session goes through no state of the key exchange; `HelloAtHand`, a renegotiating server
holds a ClientHello; `Sure`, the states from which on an end may rely on the session,
which is then one the server has negotiated; `OutVouches`, a Finished the server is about to
send carries the hash over a transcript and a master secret of a negotiated session.
`NetOK` says the last of every record under way, `CacheOK` and `SavedOK` what is to be proved.
That the client's session is the server's follows from the hash alone: both
transcripts have the same second message, which names the session.

`HandshakePeers` begins with what each action may change: for every function of
`ssl_tls.c`, `ssl_cli.c` and `ssl_srv.c` a lemma names the fields of the context it leaves alone
and the values it may give to the others.  `Moves` puts them together, one disjunct per
turn of the state machine, and `StepIs` says that every step of `Spec` is one of them.  The
type invariant and the three properties are proved from `Moves`; the functions are not opened again.

* `RejectedByBoth`, from `RejectInv`: while an end may still reject its peer, the peer is
  in a state before it reads a Finished, and none is under way to it (`Unconfirmed`).  Which
  states these are depends on what is resumed (`Unheard`): there the server's Finished comes first.
* `PeerIsVerified`, from `PeerInv`: a certificate under way is the sender's own
  (`Fits`), so what an end verifies is its peer's.  A resumed session brings a
  certificate along without verification, from the server's cache or the client's
  saved session.  Therefore the invariant follows a session id: it is drawn once, belongs
  to one client, and every entry of the cache and every saved session with it carries
  what that client presented when it was verified (`IdOf`, `CacheKnown`, `SavedKnown`).
* `Agreement`, from `AgreeInv`.  At the end of a handshake an end reads and writes under the
  two halves of one set of keys (`OverOK`), and what it reads under its peer has written under
  (`Linked`); but the peer may have renegotiated meanwhile, so that the two might be
  of different handshakes.  Keys are therefore ranked by the client's random number
  (`Rank`).  Each end changes them only for later ones (`OwnKeys`), because the client draws the
  number (`After`) and the ClientHellos reach the server in the order in which they were made
  (`Rising`).  So a key an end reads under is at most as late as the one its peer writes
  under, in both directions (`Used`); where both are at an end, neither is older than the
  other, and they are the same.  Version, suite and master secret are in the keys
  (`KeysFit`).  The session's id is not: a session that is resumed has the master secret
  of the one before, and the id follows from the verify data, which both have and
  whose transcript names it (`From`, `IdIn`).

`NeverOutOfStep`, in `HandshakeStep`.  What an end has accepted is not enough here: that the next
record is accepted has to be known before it is read, and, as both ends write a whole turn before
they read, of all the records under way at once.

* What matters of an end to the records it reads is its `View`: whether it stands between
  handshakes, in its peer's turn or behind it; the key of the next record and whether a Finished
  is due behind a ChangeCipherSpec; the verify data a renegotiation names; the transcript, the
  half of DHE and the master secret.  `Sees` is the view an end has, `Tells` the one
  somebody has who has read everything it has written.
* A record is a `Hop` from a view to the next, if it is what an end in the first may read there:
  the hello that answers, a key exchange signed over this transcript, a Finished over it.
  Data and alerts leave a view as it is (`Harmless`).  A `Way` is a row of hops, one for each
  record of a queue, the one that is not flushed included (`Queue`).  What
  ways do when a record is read (`WayTail`) or written (`WayAppend`) is known
  without any turn of the state machine.
* `Together` says where two live ends are.  One of them has nothing to read but what it
  does not mind, and is calm, or behind its peer's turn; the other is on a way from
  what it sees to what the first tells; or the server has turned a ClientHello down, and the
  client waits for an answer that will not come.  `Alone` is what is left of it for an
  end whose peer is gone, which may still read what that one has sent.
* `Touch` says of one end what its transcript has to do with the rest of its context: random
  numbers, session id, keys, verify data, certificate (`Ready`, `Greets`, `Matching`).
* `Identified` is needed for resumption: the master secret an end finds under a session's id is the
  one the other has, because an id is drawn once.

`StepInv` is `AgreeInv`, `PeerInv`, `Identified`, `NeverOutOfStep` and, of every live end,
`Touch` with `Together` or `Alone`.  TLC cannot evaluate a `Way`, which quantifies over all
functions; an executable form of it, with the views computed record by record, held in all
states of `hs` before it was proved.  The proof has one lemma per turn: a turn that writes appends a hop to the way of the
other end (whoever is on its way has still to come as far), a turn that reads takes the first
hop from its own, and where the way is at an end the roles change.  No turn on
a hop is one that refuses it.  A renegotiation that both begin, or that one refuses, is the
case in which data and hellos of one end meet the turn of the other.

**Random numbers.**  A seed is made of fresh bytes because the two counts a source has, of
what it gave and of what lies in the accumulator unhashed, are the same: the second is history, and a poll that
fails half-way leaves both as they are.  A seed does not serve for ever
because the counter is the requests since the seed, or one ahead of them.  That no block comes
twice is arithmetic: read as a number in base `RdDigit`, the counter grows by one at each
increment, wherever its carry ends, or goes from the largest to 0 (`IncrementValue`); so what
was encrypted under a key lies fewer steps behind the counter than there are blocks
(`UsedBehind`).  The lemmas on sums of digits and on the iterated counter are proved by
induction.  The induction theorems of the library cannot be used, but `WFMin`, of which `Least`
and `ByInduction` follow with a set in the place of the predicate, can.

**Record protection.**  Two invariants.  `Accepted`, of all behaviours: what was accepted is
as many records as `in_ctr` counts, and they are the first that were sent, because a MAC or tag
covers the counter, the type and the length (`MacVerifies`, `Verified`); and the checks on
a CBC record leave room for its MAC, whatever was cut or damaged (`CbcBytes`).
`Undamaged`, as long as there was no fault: the ends share all keys, as the pseudorandom function
fills the whole key block (`KeysAreShared`); what is under way are the records behind those
accepted, each as it was made; and keystream, chained block and count of empty records stand where
the last accepted record has left them (`InStep`).  Each family of suites then decrypts the next
record to what it was made of (`StreamAccepts`, `GcmAccepts`, `CbcAccepts`).

**Only model-checked**: all liveness properties, which are out of the prover's reach;
of `Library` everything but `RecordsProtected` and `SeedsAreFresh`.  What `JsonText`, `Der`,
`Bignum` and the modules above them compute is defined with RECURSIVE operators or those of
`Bitwise`, in whose reach the prover has no arithmetic; so `ParsedAsMeant`, `WireIsMeant` and
`SavesTheCertificate` stay with TLC too.

## 5. Not modelled

* Inside the primitives: compression functions, the rounds of the block ciphers, GCM's
  multiplication.  They are opaque, or small stand-ins; a constant in a table that is
  wrong would not be noticed.  `arc4.c`, `xtea.c`, `des.c`, `camellia.c` and `blowfish.c` have nothing else,
  `padlock.c` and `timing.c` are machine code, `havege.c` is a source of entropy like any other
  in `Random`, and `dhm.c` is a term in `Handshake`.
* Of the handshake: the SSLv2 form of a ClientHello, server names, the `SSL_LEGACY`
  settings that let peers without secure renegotiation in, PKCS#11 keys, allocations that fail.
* How the layers share a record's buffer: `RecordLayer` starts behind the handshake, and in
  `Enrolment` a handshake succeeds or fails inside `ssl_write`.  A message of the handshake is
  one record in `Handshake`; pieces of records are in `RecordLayer`.
* Functions that print: `x509parse_cert_info`, `mpi_write_file`, `debug.c`, `error.c`, the
  logger, `printJSON`; self-tests; the examples in `programs`.
* DNS name compression and the bytes of the packets: a response is an owner name and
  records, which are an address or a length.
* Two instances of the program in one directory, which share `pzp_csr`
  (`connect.c:52`).  The tree under `~/.webinos` is modelled with several.
* Hazards seen and not listed, as a test meets them or nothing in the program does:
  `main.c:31` frees the only copy of the key while `certificate.json` stays;
  `localDiscovery.c:31` takes descriptor 0 for an error; `:152` leaves the end of an
  older packet behind a shorter one; `ssl_tls.c:3677` renegotiates although data are
  pending, for an application that asks for it; `:3294` keeps `verify_result` of the
  connection before until a certificate is verified.

## 6. Plan

In this order:

1. `CertChain`: that only chains pass, by induction along the peer's list as for the counter of
   `Random`.
2. Flights of the handshake over `ByteStream`, with messages in pieces.
