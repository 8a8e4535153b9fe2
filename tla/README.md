# AOCL-Cryptography: TLA+ models, model checking and proofs

AOCL-Cryptography (ALCP) is a C++ library of ciphers, digests, MACs, random
generators and RSA behind a C API (`src/include/alcp/*.h`).  This directory
specifies its *sessions*: what a handle remembers between calls, and what it owes
the caller for any order of calls, any cut of the data and any refused call.  The
arithmetic of a cipher, a compression function or a modular exponentiation is taken
as the function it computes; the control around it (buffers, counters, states,
early returns, reused objects, pointers) is modelled completely.

## The system

| Component | State it keeps | Operations | What is hard |
|---|---|---|---|
| CMAC (`lib/mac/cmac.cc`) | chaining value, block buffer and offset, finalized flag, expanded key, subkeys | init, update, finalize, reset, copy | the last block must not be encrypted before finalize; the wrapper drops errors |
| SHA-2 (`lib/digest/sha256.cc`, `sha512.cc`) | hash, chunk buffer and index, length, finished flag | init, update, finalize, copy | buffered and direct path; padding in one or two chunks; refused finalize |
| HMAC (`lib/mac/hmac.cc`, `hmac_build.hh`) | both padded keys, a digest object it does not own, flags | request, init, update, finalize, reset, copy, finish | one digest object used for three hashes, replaced, cloned and deleted by wrappers |
| Multi-buffer SHA-2 (`lib/digest/sha256_mb.cc`) | staged buffers, count, length, number of blocks, start value | init, flush, dequeue, set_state, set_blocks | two implementations chosen by batch size; block count left over from earlier calls |
| Multi-buffer HMAC (`lib/mac/hmac_mb.cc`) | two precomputed hashes, the caller's key pointer, staged buffers, a multi-buffer digest | init, flush, dequeue | two hashings per batch from precomputed states; key read again on one path |
| SHA-3, SHAKE (`lib/digest/sha3.cc`) | sponge state and a pointer to it, block buffer, index, processing state | init, update, finalize, squeeze, copy | one output stream however squeezed; padding as late as the first output |
| Poly1305 (`lib/mac/poly1305.cc`, reference and Zen4 states) | accumulator, key halves, message buffer and its length | init, update, finalize, reset, copy | leftover bytes and leftover accumulator across init |
| AES-GCM (`lib/cipher/aes_gcm.cc`) | state manager, key, IV, counter, hash, lengths, partial block, buffered AAD | init, setAad, encrypt, decrypt, getTag, setTagLength | key and IV in separate calls, what init does not reset, tag computed in place |
| AES-CCM (`lib/cipher/aes_ccm.cc`) | nonce block with its flags, counter, lengths, borrowed AAD | init, setTagLength, setAad, setPlainTextLength, encrypt, decrypt, getTag | lengths that must fit the nonce, a failed session that must stay silent |
| ChaCha20-Poly1305, AES-SIV (`lib/cipher`) | counter in the stored IV and a Poly1305; a list of CMACs of additional data and two key halves | init, setAad, encrypt, decrypt, getTag | composition of two objects, what each init of them keeps |
| CBC, CFB, CTR, OFB (`lib/cipher/aes_generic.cc`) | state manager, key, chained IV, bytes that do not fill a block, staged buffers | init, encrypt, decrypt, flush, dequeue, copy | calls that continue a message; buffers of unequal lengths side by side |
| XTS (`lib/cipher/aes_xts.cc`) | two keys, IV, tweak, number of the block the tweak is for | init, encrypt, decrypt, segments, copy | tweak and block number must move together; stolen bytes; seeks |
| DRBGs and entropy sources (`lib/rng`) | K and V, flags, an entropy source | request, initialize, randomize, reseed, gen_random | sources that answer in part, late or not at all; ignored results |
| RSA (`lib/rsa/rsa.cc`, `lib/capi/c_rsa.cc`) | two keys and one size, digest and mask digest as borrowed pointers, DigestInfo | keys, digests, copy, OAEP, PSS, PKCS #1 v1.5 | pointers to replaced objects, paddings read back without branches |
| Elliptic curves, OpenSSL provider, IPP | per operation | | arithmetic, or adapters of the above |

Components interact by calls only: the C functions check pointers and call
through the function pointers a builder put into the context; HMAC and RSA call a
digest through `IDigest`; multi-buffer HMAC owns a multi-buffer digest and a
single-buffer HMAC; ChaCha20-Poly1305 inherits Poly1305; a generator asks an
entropy source.  The library starts no threads, keeps nothing on disk and
has no timers, so the hard behaviour is *sequential*: long sequences of legal
calls, calls that fail half-way, state left over from an earlier message, two
implementations that must agree, objects shared between handles, and the
boundaries of blocks and counters.  The one partner that acts on its own is the
operating system (or processor) behind an entropy source, which may answer in
part, be interrupted or fail: there the model interleaves its steps with the
call's, and has the only liveness properties.

`PROJECT.json` lists every component with its status, and every hazard at the
line where it bites with the properties that cover it.

## Modules

**`MacSession`, `DigestSession`** are the abstract contracts.  A session is
the message absorbed since it was started, whether it is finished, and what was
delivered; delivery is one step, and its result a function of key and message.

**`Cmac`** models one CMAC session.  The chaining value is determined by the
bytes encrypted into it, in order, so `enc` *is* that sequence, and `buff` the
first `m_buff_offset` bytes of `m_buff`.  `key` stands for the expanded key and
both subkeys.  `fed` is a history variable: the bytes handed over since the
session was started.  The actions are the early returns and paths of
`Cmac::update` and `Cmac::finalize` one by one; the AVX2 kernel and the
reference code process the same bytes and are one action.  `BlockCountLimit`
is the Uint32 cast of the number of blocks.

**`Sha2`** models one SHA-2 session in the same way, for both classes: `wide`,
chosen once at the start, says whether it is `Sha2_512`, which differs in the order
of its checks.  The length field in the last block is 256 plus the length in bits,
once for each of its bytes, so that it cannot be confused with message bytes and
shows which length is encoded; its computation wraps at `BitCountLimit`.  SHA-NI's
finalize does not write the hash back, hence the choice for `comp'` in
`FinalizeDelivers`.  A finalize that `Sha2_512` refuses has padded and compressed
already: `spoiled` says so, and the refinement mapping shows the contract such a
session as one that was started again and took nothing.

**`Hmac`** models HMAC handles and the objects behind them.  A digest object is
the sequence of what went into it since its init; that `Sha2` computes exactly
this is what its own properties say.  `dptr` is the pointer both the context
and the `Hmac` object hold; `Dangling` is a pointer to a deleted digest, which
an init with an unsupported mode leaves behind.  A call that would go through a
null or dangling pointer is undefined in C++ and not a step.

**`MultiBuffer`** defines the `Sha2MB` object by operators on its state,
**`Sha2MB`** drives it from a digest handle, **`HmacMB`** from a MAC handle
that uses the object twice for each batch.  The j-th byte of the i-th message
of batch b is the triple `<<b, i, j>>`, since the code never looks at a byte;
`Beyond` is what lies behind the end of a message.  `VectorMin` above
`MaxBuffers` models a processor without AVX-512.  A dequeue that starts the
kernel on UINT64_MAX blocks reads far outside its buffers: it ends the process
(`OVERRUN`), which is why `sha2` does not check deadlock.

**`Sha3`** models SHA-3 and SHAKE sessions that may be copied into each other.
The state of Keccak is the sequence of blocks xored in before each permutation
(a squeeze without input takes in a block of zeros), an output byte the state it
was read from and its place.  Every operation works through `m_state_flat`; the
model keeps which object that pointer points into, since a copy must move it.

**`Gcm`** models one AES-GCM session: `GcmT` with the state, key and IV managers
and the partial block of `cipher_common.hh`.  `multi` is the build: with
`AES_MULTI_UPDATE` the bytes of an unfinished block and the additional data are
buffered, without it every call is one kernel call.  Data are symbolic.  A byte
is `[ks, b]`, the byte b under the keystream byte ks, which round keys, counter
origin, block and place in the block name; GHASH is the sequence of blocks
absorbed; the tag register is `start` (the key and IV `InitGcm` last ran with,
which determine hash key and encrypted first counter) and the hash values folded
into it, since `getTag` XORs in place.  Before `InitGcm` the hash key is zero, and
absorbing anything gives zero.  The text and the additional data of a message are
numbered bytes: the code moves them and never looks at one.  `aad`, `fed`, `got`
and `dir` are history variables, and `regular` says that the calls since `InitGcm`
are those of one message in the order the API gives: additional data before text,
one direction, the tag last and once, and in the default build additional data at
once and text cut at block boundaries.  What the calls do outside that order is
modelled too; the properties about text and tag do not speak of it.  The kernel is the
AES-NI one; the VAES kernels are taken to process the same bytes.

**`CipherBytes`** are the symbolic bytes of the other AEAD modes (a value and the
keystream bytes it is masked with), **`Poly1305`**, **`ChaChaPoly`**, **`Ccm`** and
**`Siv`** the four objects, each as functions from the object and a call's arguments
to the object afterwards and what was returned.  **`Aead`** is one handle on any of
them: the caller makes any call at any time.  `Poly1305` has both forms of the
class, the reference one and the radix-44 state of the Zen4 kernels; `ChaChaPoly`
contains a `Poly1305`, as the class inherits it.  `Ccm` is the default build, where
one encrypt or decrypt is a message; what `setAad` stores is the caller's pointer.

**`Aes`** declares what CMAC and the block modes share: block size, keys and the null
key.  **`BlockCipher`** gives the block modes a cipher that is a permutation: a byte is
the set of the terms it is the sum of, and deciphering what was enciphered under the
same key gives back what it was.  **`Xts`** has `XtsT` and `XtsBlockT` with the
tweak, the block number the class believes it is for, stolen bytes on the kernels
of each architecture; **`BlockModes`** has CBC, CFB, CTR and OFB behind
`AesGenericCiphersT`, with the bytes CBC keeps and the scheduler that works on
several buffers at once; **`CipherSession`** is one handle on any of them, in either
build.  A text is a recursive function of the block's number there (`Chain`, the chaining
block behind each block), as are the rounds of a dequeue (`Rounds`); the specification
is called `CipherSpec`, so that one module of proofs extends `Cmac` and `CipherSession`.

**`EntropySource`** models `SystemRng`, `HardwareRng` and `CustomRng`: the system
answers each read with some bytes, an interruption or a failure, the loop counts
its attempts and the bytes it still wants as an unsigned number (`% SizeMod`).
**`Drbg`** is a generator over such a source, with the steps of a call between its
waits for entropy.  K and V are the history of what was done to them (`ops`: one
record for each new K, with what was mixed in), so that two states are equal only
if the same was done.  It models HMAC-DRBG and CTR-DRBG with and without
derivation function, and random number handles on the same sources.

**`RsaPadding`** has the encodings of OAEP, PSS and PKCS #1 v1.5 and their
decodings, byte by byte; a masked block is opened by the same mask generation only,
anything else gives `Noise`, in which no padding and no hash is found.  **`Rsa`** is
a session of the C API: the two keys that share one size, the context's digest and
mask digest, and the `Rsa` object's pointers to them, which may be null, dangle
(`"gone"`) or, of the mask, be to the digest's object (`shared`).  The RSA
operation is symbolic: what one key of a pair made, the other opens, any other key
makes Noise of it.  A call through a null or dangling pointer, an operation on keys
of a size that is not the session's, and a read beyond a buffer have no defined
outcome and are not steps.  An architecture without kernel stores the key and
refuses every operation; it is left out.

**`MC...`** modules give the constants small values.  Definitions whose comment
begins with "Variant of" are not part of the specifications: each is the mutated
form of the definition that follows it, and shows that a property notices the
mistake.

## What the runs show

| Run | Question | Result |
|---|---|---|
| `aes` | CMAC: does one session deliver AES-CMAC of what it was given, however cut, reset or keyed again?  Block modes: is the text of CBC, CFB, CTR, OFB and XTS the mode's own however cut, copied, sought or done side by side? | holds (segments: with `AES_MULTI_UPDATE`; OFB: of the whole blocks) |
| `cmac_key` | does a CMAC init that reports success set the key? | **no**: the wrapper drops the error of a refused one (`cmac_build.hh:51`) |
| `xts_segment` | is a segment in place in the default build too? | **no**: one that begins where the last ended gets the tweaks of the last one (`aes_xts.cc:430`) |
| `ofb_tail` | is OFB right for texts of any length? | **no**: the bytes behind the last whole block leave in clear (`aesni_ofb.cc:107`) |
| `sha2` | do sessions of both SHA-2 classes implement the contract, refused calls included?  Does a multi-buffer batch flushed once get its digests on both paths; when does the kernel run without a block count? | holds, of messages without a refused finalize; only for a batch dequeued twice |
| `hmac` | does every handle compute HMAC of its own message, and leave the others alone?  Does multi-buffer HMAC compute HMAC in any order of calls? | holds: `process_buffers` sets the block count the object would keep |
| `sha3` | is all output of a session one stream, the XOF of its own message, however fed, squeezed and copied? | holds |
| `gcm` | for both builds, with inits that succeed, fail half-way and reuse the key or IV: is the text counter mode, the tag GCM's, and only a genuine tag accepted? | holds, of messages with additional data of their own, or none in the session so far |
| `aead` | CCM, SIV, ChaCha20-Poly1305 and Poly1305: is a tag that of the message's own parts, does decryption undo encryption, does a failed CCM session stay silent? | holds, of messages made in order on a handle where nothing of another was left behind |
| `drbg` | are seeds whole and fresh, is the past safe from the state kept, is what prediction resistance draws in the blocks it was drawn for, does every call return? | holds, with the exceptions the properties name |
| `rsa` | does only its own key, label and digest open a ciphertext, and does a signature verify exactly for its message, key and digests? | holds; OAEP gives the length of any text, and the text if it is no longer than `Half` |
| `rsa_oaep` | does an OAEP decryption that succeeds give the text, of any length? | **no**: of a longer one the beginning is not written (`rsa.cc:66`) |

Three runs have two systems each, `aes` (a CMAC session or a block mode handle), `sha2`
and `hmac` (sessions or a multi-buffer object).  The two share constants but no
state: which of them moves is chosen at the start (`mac`, `batch`), and the
properties of the other hold of its initial state throughout.

### Bounds, and why they are enough

- **Block and chunk sizes** (`Block = 2`, `Chunk = 3` or `2`).  The code depends on
  lengths only through comparison with, and division by, the block size.  The
  bounds on messages (`MaxMsg`) let one call fill the buffer, process a block of
  the buffer and one or more of its own data, and leave every possible tail.
  With `Chunk = 3` and `LenBytes = 1` both padding layouts occur.
- **Bytes** are 0 and 128, the two values padding is made of, so that data that
  looks like padding is among the messages.
- **Two handles** suffice for `Hmac` and `Sha3`: a call involves at most a source
  and a destination.  The modes are one of each kind the code tells apart.
- **Batches** of up to `MaxBuffers = 3` with `VectorMin = 2` take each path with
  more and with fewer buffers than staged; two names of batches tell a stale
  batch from the current one; `LenLimit` is within the range of lengths offered.
- **SHA-3**: `Block = 3`, messages and outputs of up to 4 bytes in pieces, so that
  each crosses a block boundary and is cut before, at and behind it.
- **GCM**: `Block = 2`; texts of up to 5 bytes, so that a message may be cut into
  calls that end inside a block, at its end, or both; additional data of up to 3
  bytes, one block and a half; two keys and two IVs (symmetric), one bad one of
  each; tag lengths 3, 5 and 16: one refused, one that can be set but not asked
  for, one that is delivered.
  `MaxBreaks = 2` bounds how many calls a session goes on with once a call broke
  the order of a message, until the next init.  What such calls leave behind in the
  session (lengths, buffers, direction) is what the next message starts from; two
  are enough to leave each of them behind, and to make a session Ready and use it
  without `InitGcm`.
- **AEAD**: blocks of 4 bytes, texts of one byte and of a block, additional data of
  one and of three bytes; two keys; two IVs, one of which leaves CCM's length field
  room for 3 bytes; CCM tags of 3 (refused), 4, 5 (odd: set, never delivered) and
  12 (the default).  `MaxTurns` counts the calls that begin a message, fail or are
  out of order: 3 (4 for Poly1305), so that two messages can follow each other with
  a failure or a break between them; the calls of a message in order are free.
- **Block modes**: `Block = 2`; texts of 1, 3 and 4 bytes up to 5 in all, batches of
  1 to 3 buffers of equal and unequal lengths, segments that begin at block 0 to 3;
  `MaxTurns` as for AEAD, 3 for the modes that also have batches and 5 for the others.
- **DRBG**: seeds of 4 bytes, which a source may deliver in pieces and RDRAND in
  strides of 2; 2 retries in place of 10; three calls, enough for an initialize, a
  request and what a failure in between leaves; `SizeMod = 16` is the width of the
  count of wanted bytes, so that one below zero is a large number.
- **RSA**: keys of 16 and 8 bytes, two pairs of the larger size; a byte of 16 values
  (`Half = 8` in place of 128), so that a text of 9 bytes is longer than half the
  values as one of 129 is; `PsMin = 2` in place of 8; a digest with a DigestInfo and
  one without (MD5_SHA1 in the library); texts that are empty, look like padding or
  have `Half` bytes or one more, salts likewise.  The session has no counters: the run has no bound on
  the number of calls.
- `spoiled` bounds failed finalizes to one for each message; `flushes` counts up to
  2.  Both are history variables that appear in guards or properties only there.

### Fairness

`Drbg` alone assumes fairness: `WF_vars(Answer)` and `WF_vars(Proceed)`.  The first
says that the system call or instruction the library waits for returns, in part, with
an error or in full (the interface says only that it "may block", `Irng.hh:47`, not
that it may block for good); the second that a call which is running and not
waiting takes its next step.  No fairness makes the caller call.  `CallsReturn` holds
because the sources give up after a bounded number of attempts, not because an
answer must be good: a system that is interrupted every time is fair.  All other
sessions are driven by their caller, who may stop at any point, and no call waits:
they state safety only.

## What is proved

For every value of the constants allowed by the named assumptions (any block
size, any set of keys, bytes and handles, any bound on messages):

| Module | Theorems | Argument |
|---|---|---|
| `AesProofs` | of `Cmac`: `TypeCorrect`, `LastBlockIsHeldBack`, `NoByteIsLost`, `CmacImplementsMacSession`; of `CipherSession`: `StreamsAreTheModes`, `SegmentsAreInPlace`, `BatchesAreTheModes` (every mode, both builds) | below |
| `Sha2Proofs` | `TypeCorrect`, `MessageIsAccounted`, `CleanDigestIsHash`, `Sha2ImplementsDigestSession` (both classes); of `Sha2MB`: `BatchTypeCorrect`, `BatchesAreDigested` | below |
| `HmacProofs` | `TypeCorrect`, `DigestAlwaysHoldsMessage`, `CleanMacIsHmac`, `SessionsAreIndependent`; of `HmacMB`: `BatchTypeCorrect`, `BatchesAreAuthenticated` | below |
| `GcmProofs` | `TypeCorrect`, `ReadyIsKeyed`, `TextIsCounterMode`, `TagIsTheStandards`, `OnlyGenuineIsAccepted` (both builds) | below |
| `AeadProofs` | `TagsAreTheStandards`, `DecryptionInverts`, `BurntIsSilent` (all four kinds of handle) | below |
| `Sha3Proofs` | `TypeCorrect`, `MessageIsAccounted`, `StreamIsTheXof`, `OthersAreUntouched` | below |
| `DrbgProofs` | `TypeCorrect`, `SourcesAreHonest`, `SeedStaysFresh`, `ThePastIsSafe`, `ReseedReachesOutput` | below |
| `RsaProofs` | `TypeCorrect`, `SignatureSafety`, `CiphertextSafety` | below |

Each of these modules begins with, or has where it first needs them, its lemmas on
division by a block size and on sequences.  `Sha2MB` and `HmacMB` name their
definitions apart from those of `Sha2` and `Hmac` (`BatchSpec`, `BatchTypeOK`), so
that one module of proofs extends both.

*CMAC.*  `TypeOK`, `LastBlockHeldBack` and `NoByteLost` together are inductive.
The step that matters is `UpdateProcessed`: with `rem` bytes left once the
buffer is full, `rem - HeldBack(rem)` is a multiple of the block size, and the
bytes encrypted and those kept split the data without a gap; this is where
`MaxMsg < Block * BlockCountLimit` is needed, the condition under which the
Uint32 cast loses nothing.  At finalize, `Len(enc)` is a multiple of the block
size, so the buffer is full exactly when the message is a positive multiple of
it: the case split of the code is that of the standard.

*SHA-2.*  The invariant is `TypeOK`, `MessageAccounted`, `CleanDigest` and `Bounds`:
the buffer holds at most one chunk, the message keeps its bound, nothing is
delivered before the session is finished, and only the 512-bit class pads twice.
`CleanDigest` is what the refinement needs of a delivery; it is no property of a run
because the refinement implies it.  The digest step needs that the final size the
code computes from the index leaves between 0 and `Chunk - 1` zeros, so it is the
number FIPS 180-4 asks for, which is unique.  `8 * MaxMsg < BitCountLimit` is the
standard's bound on lengths.  In the refinement a refused finalize of `Sha2_512`
maps to the contract's start, and what follows it until the next init to stutters.

*Multi-buffer SHA-2.*  `BatchDigested` needs to know where the number of blocks comes
from: `BlocksMatch` says that it is unset if and only if nothing was flushed since
the last dequeue that succeeded, and the staged length's own after one flush; `Staged`
that between calls the hash is the start value and what is staged is `num` messages
of `len` bytes.  Each path is then a lemma of its own: on the vector path `Read`
stops at the blocks and the rest the padding asks for, so that no byte of `Beyond`
is reached; the single-buffer path hashes each message as a whole and does not look
at the number of blocks, which is why it holds after any number of flushes.

*HMAC.*  `DigestHoldsMessage` is not inductive alone: that handle h's digest is
unaffected by calls on another handle needs that no two handles name the same
object, which holds because a pointer is null, dangling or the handle's own
object.  With that in the invariant, every action changes one object only, and
the action property follows for `[Next]_vars`.

*Multi-buffer HMAC.*  The invariant is stronger than that of the digest object: between
calls it never keeps a number of blocks (`Staged`), whatever batch and chaining value
were left in it, because `process_buffers` sets both before each hashing and the
dequeue clears the former.  Two facts carry the step: a digest that starts from the
state behind one block, and is told that block's length, is the digest of the block
and the message behind it (`LoadedDigest`).  It is used twice, for the inner pad and the
message and for the outer pad and the inner digest.  The single-buffer path keys its
own HMAC with what the caller's memory holds by then, and the property says so.

*GCM.*  `TextIsCtr` needs to know where the counter is: `Position` adds that it
has advanced by the whole blocks of the text so far and, while no tag was taken,
that the partial block is exactly the rest of the text behind them.  Two lemmas
then carry the step.  `CtrContinues`: masking the kept bytes again together with
the new ones, from the block of the former, and returning what follows the kept
bytes continues the encryption of the whole; `RestContinues`: what is kept
afterwards is the rest of the longer text.  `StateKnows` relates the state
manager to key and IV, without which `ReadyMeansKeyed` is not inductive: a failed
init may leave a key without an IV.

For the tag, `HashSoFar` says what GHASH has absorbed before a tag is taken: the padded
additional data and the padded ciphertext, in the streaming build of the whole blocks
so far, and the additional data only once there was text, since they wait in a buffer
of their own.  `getTag` completes it, and the tag register is then the one of the
standard.  That the *ciphertext* is absorbed in both directions is what
`OnlyGenuineIsAccepted` rests on.  The tag a decryption is given may be any, that which
the session computes included (`Received`), so that a session that computed a wrong tag
would be seen to accept a wrong one.

*CCM, SIV, ChaCha20-Poly1305, Poly1305.*  One invariant for the four kinds of handle,
with a part for what each object owes the message at hand.  A Poly1305 object *holds*
a message (`Holds`) if it has the sum of its whole blocks and the rest of it in the
buffer; `UpdateHolds` is the step for any cut, in the reference form and the Zen4 one, and
`TagOfHeld` the end.  `TextInv` says that the output is the text masked from the start
of the keystream, and masking twice gives the text back (`XoredTwice`); with what
`SentInv` keeps of the message that was encrypted, `DecryptionInverts` follows.  The
parts about objects that nobody touched (`Fresh`, empty lists of additional data) are
needed because a call out of order may leave something behind: the theorems speak of the
handles where it did not.  A CCM handle that failed has no flags in its nonce block
(`burnt => obj.flags = 0`), and every operation that delivers refuses those; that a
working handle always has some is `CcmAssumption`, by which tag lengths are positive.

*Block modes and XTS.*  A caller's bytes are terms nobody enciphered, and on blocks of
them, of what they were chained with and of what the cipher made of these, `Decipher`
undoes `Encipher` (`Free`, `Image`: a set of terms has no bound, so this is what there is
in place of its type).  Each mode then relates a text and its ciphertext block by block
(`RelatesIs`), in the direction it was called in: `ModeTextIs` for the chained modes, whose
`Chain` the properties describe by the ciphertext in front of each block, and its
counterpart for XTS with stolen bytes.  A session goes on where it stopped:
`SessionInv` says that the stored IV, tweak or partial block is the one that belongs to
the end of the text so far, and `StreamGoesOn`, `CbcGoesOn` (with the bytes CBC keeps) and
`XtsRelatesJoin` that a text related that far, followed by one that starts there, is
related as a whole.  `StreamIsMode` alone says nothing of what is stored and is not
inductive.  A segment moves the tweak from the block the class believes it is at to the
one the caller names.  The count moves with every call, the tweak only where
AES_MULTI_UPDATE is defined: `SegmentsAreInPlace` has that build as its hypothesis, and
the run `xts_segment` shows that the property fails in the other.  OFB's last bytes, which
the kernel leaves in clear, are no part of what is related: the induction for CBC and OFB
is over whole blocks (`WholeBlockModes`).

For the batches, `BatchInv` says the same of every buffer: what a buffer has written is
the mode's of its first `off` bytes, and its IV the one that goes on from there
(`RoundOk`).  A round takes whole blocks, no more than the shortest active buffer has left
(`MinLen`), the last two and the rest take all there is, and where AES_MULTI_UPDATE is off, so
that no IV is written back, a buffer is done in one part: before Zen4 because it is not cut, on
Zen4 because the property speaks of buffers of one length there.

Induction is over natural numbers only, and no theorem with an operator as parameter
is used: that `<` on them is well-founded gives a least number in every set that is not
empty (`LeastNumber`), hence that a set with 0 and with the successor of each of its members
below a bound has them all (`ByInduction`).  `ChainIs` shows in this way that the recursive
function of a chain exists and is what its definition says, block by block; `Rounds` and
OFB's keystream have lemmas of the same form.

*SHA-3.*  Each session is typed, works on its own state, and is `Good`: while it
absorbs, its state is the whole blocks of its message and its buffer the rest; while
it squeezes, its state is the closed message permuted so many times more, and the
bytes given are a block for each of these and the index.  `AbsorbedInPieces` and
`CutIsUnique` carry an update, `ClosedIsFinal` the padding, `StreamContinues` the
output: reading n bytes and then m is reading n + m.

*DRBG.*  The invariant of the source counts: bytes written and bytes wanted are the
request, and no read returns more than is wanted, hence the unsigned count never
wraps and success means that every byte is written.  For the generator, the history
of K only grows within one initialization (`LongerTransitive`), each request ends with a new K
made after its blocks (`GeneratePast`), and the first record of an initialize is
made of the draws it asked for.  Entropy that arrived for prediction resistance is all
of the newest draw and begins a new key (`ReseedMixes`), and every block generated after
it remembers that (`BlocksRemember`): `ReseedReaches` is an action property, and its
step is the one that ends the call.

*RSA.*  `TypeCorrect` needs that a mask pointer shared with the digest goes when the
digest does.  `SignatureSafety` adds what the held signature was made of
(`SignatureMade`), whatever calls came after.  `PssExact` says when a PSS block
verifies: the first byte of the data block that is not zero is the 01 in front of
the salt, of any length, so the hash compared is that of the salt signed, and a
hash tells its digest and its message; a block under another mask or digest is Noise
and its first byte is not 01.  `Pkcs1Exact` says that two encodings are equal only
if digest, DigestInfo and message are: the last byte is one of the hash, and the
byte before the hash tells whether there is a DigestInfo.  `CiphertextSafety` has
`CiphertextMade` in the same place, which says what the held ciphertext was made of.
Opened under its own digests and label an OAEP block shows the 01 as the first byte
behind the label's hash that is not zero, hence the length of the text, and the loop
that compares bytes copies the whole of a text that has no more than `Half` bytes (of a
longer one its last `Half`, which the theorem does not count as the text: `rsa_oaep`);
under other digests or another label the hash compared is not the label's, or the block
is Noise.  A ciphertext not below the modulus is refused before anything is opened
(`Accepts`); PKCS #1 v1.5 then decodes a block of zeros, whose padding refuses it.  `RsaAssumption` asks that no key
has more than `2 * Half` bytes, as the kernels of the library do, which end at 256 bytes: the
comparison of places as bytes then never takes two places for one.

Only model-checked, not proved: `CallsReturn` of `Drbg`, a liveness property.  Every
other property of a run that is expected to pass is the statement of a theorem.

What the proofs changed in the models: in the CASE of `ModeBlock` two arms were true at
once for a counter mode that enciphers.  TLC takes the first, which was the one meant,
but the value of such a CASE is not determined; the arms now exclude each other.

## Where code and expectation part

Four runs show a disagreement between the code and its own documentation or tests, each
with a property that states what these say: `cmac_key`, `xts_segment`, `ofb_tail` and
`rsa_oaep` (`findings` in `PROJECT.json`).  The models contain other behaviour that a
caller may not expect.  It is what the code does; the properties above speak of the
sessions where it does not happen, and say so in their conditions.

*Digests and MACs.*  CMAC's wrapper drops the error of a refused key
(`cmac_build.hh:51`, run `cmac_key`): the session goes on under the old key, and the
contract of MAC sessions takes the call for one that did nothing.  A finalize that `Sha2_512` refuses has padded and compressed
(`sha512.cc:314`, `357`), and HMAC over it is lost likewise (`hmac.cc:184`).  A second
flush of a multi-buffer digest keeps the block count of the first
(`sha256_mb.cc:125`).  An HMAC init with an unsupported mode leaves a dangling digest
(`hmac_build.hh:91`), and a copy may get none (`hmac_build.hh:213`).  SHA-3 takes
data after a squeeze, and a finalize that was refused for a null buffer succeeds when
repeated (`sha3.cc:438`).  Poly1305's copy copies nothing (`poly1305.cc:60`); a new
key leaves the Zen4 state its accumulator and the reference class the length of its
message buffer.

*AEAD.*  GCM leaves the length of an earlier message's additional data
(`aes_gcm.cc:162`), becomes Ready with an IV that was refused (`aes_gcm.cc:55`, `63`),
gives two different tags when asked twice (`aes_gcm.cc:688`) and uses an IV again when
only the key is set (`aes_gcm.cc:71`).  CCM never clears the borrowed additional data
at init, delivers a zero tag before any text and at the second getTag, delivers no
odd tag length, and accepts a key whose IV is refused.  ChaCha20-Poly1305's second
encrypt overlaps the keystream of the first; a refused key keeps the new IV; its Zen4
getTag ignores the length.  SIV's additional data accumulate until a getTag; a key of
odd length replaces one half before it is refused; the plaintext is written even when
the tag does not match.  By `cipher_aead.h:200` getTag compares while decrypting.  GCM's
does (`aes_gcm.cc:698`; `INTERNAL_TAG_MATCH` is defined as 1 at line 127, under a comment
that calls it disabled); those of CCM and ChaCha20-Poly1305 only give the tag, and SIV
compares in decrypt (`aes_cmac_siv.cc:393`).

*Block modes.*  The bytes CBC keeps are not cleared by init, are shared by both
directions and are lost by a copy; a copy of a handle without key is Ready.  The
default build of Zen4 works on buffers of unequal lengths wrongly (the tests leave
those out, `test_multibuffer_variable_length.cc:209`); a refused IV in a batch
leaves the others half replaced.  OFB never continues a message, and what a
text has behind its last whole block leaves as it came (`aesni_ofb.cc:107`, `149`, `195`,
run `ofb_tail`): the tests only decipher what they enciphered, which gives it back.  XTS keeps its
tweak when only the key changes, uses the tweak key it has when the IV comes first,
and its decrypt never sets the length; on Zen3 and Zen4 the tweak moves differently
behind stolen bytes.

*Random numbers.*  An error of the source is dropped by the random number handle
(`rng/builder.cc:43`); the hardware source leaves the odd byte of a request; a custom
source that is used up reports success; a personalization that is too long leaves
CTR-DRBG unseeded with success (`drbg_ctr.cc:215`); CTR without derivation function
ignores the nonce; its `internalReseed` is empty (`drbg_ctr.cc:282`); there is no
reseed counter, and randomize before initialize works on a zero state.

*RSA.*  OAEP gives of a text longer than 128 bytes only the last 128 and reports
success, since the loop's comparison is made on bytes (`rsa.cc:66-70`, run `rsa_oaep`; a
2048-bit key with SHA-256 takes texts of 190 bytes, and a test decrypts one but looks
only at the error code, `unit_test.cc:731-754`), and writes zeros behind a text that is
shorter than the longest by as much.  A DigestInfo stays when the next
digest has none, so that MD5_SHA1 signs under its predecessor's.  The mask's pointer
to a replaced digest dangles (`rsa.cc:483`), an unsupported digest leaves a dangling
one (`c_rsa.cc:253`), and the decryptions go on when the RSA operation was refused
(`rsa.cc:403`, `856`).

## What is not modelled

The components marked `not_modelled` in `PROJECT.json`, with the reason there.  Most
of the library's lines are arithmetic, tables and unrolled kernels (the AVX-512
kernels of RSA and Poly1305, the table of Ed25519, VAES cores) or adapters to other
libraries (the OpenSSL provider, IPP): TLC can say nothing of the former that a
test vector does not, and the latter hold no session of their own that the C API
does not have.  For that reason the models cover about a tenth of the lines, though
all of the session logic of the components marked `modelled`.

Inside modelled components: allocation failures, null handles, which every C function
refuses before it touches the session, copying where the table of the components
does not name it, and finishing sessions other than HMAC's and the generators'.
Callers are assumed to keep the rules of the API that the code cannot check: one
thread for each handle, buffers as long as stated, staged buffers left alone until
they are dequeued, no request on a live handle, and RSA padding without zero bytes.

## Plan

1. *Done*: all sessions of digests, MACs, ciphers, generators and RSA, with their
   runs; the proofs of the table above.
2. *Done*: the proofs of every safety property a run checks.
3. An abstract AEAD session (additional data, text, tag as a function of key, IV and
   both) which `Gcm` and `Aead` implement for messages in order.
4. The OpenSSL provider's contexts over `CipherSession` and `Aead`.
