------------------------------- MODULE Crypto --------------------------------
(***************************************************************************)
(* Encryption of archives (aether-core/src/crypto/mod.rs and its uses in   *)
(* pipeline/compress.rs and pipeline/decompress.rs), symbolically: a key   *)
(* is what it was derived from, a nonce what it was hashed from, and a     *)
(* sealed payload is the record of everything that was authenticated.      *)
(* Archives are written block by block; later their headers and payloads   *)
(* may be damaged or end up in another place or archive.                   *)
(***************************************************************************)
EXTENDS Naturals, FiniteSets

CONSTANTS Vaults,       \* the archives, and the random values drawn for them
          Passwords,    \* what users type
          Weak,         \* passwords shorter than MIN_PASSWORD_LEN
          Costs,        \* Argon2id costs a header may hold (one number)
          MinCost, DefaultCost, MaxCost,
          MaxId,        \* u32::MAX
          Plaintexts,   \* payloads of blocks
          MaxDamage     \* bound: how many times archives are damaged

ASSUME CryptoAssumption ==
    /\ MaxId \in Nat \ {0}
    /\ MinCost \in Nat /\ DefaultCost \in Nat /\ MaxCost \in Nat
    /\ MinCost <= DefaultCost /\ DefaultCost <= MaxCost
    /\ Weak \subseteq Passwords

VARIABLES vault,        \* the archives as they are stored
          writer,       \* what the process writing each archive knows
          sealed,       \* history: everything that was ever sealed
          damages

cryptoVars == <<vault, writer, sealed, damages>>

CipherId == {"Aes256Gcm", "ChaCha20Poly1305"}
EncryptedMetadataBlockId == MaxId
Failed == [ok |-> FALSE]
Done(x) == [ok |-> TRUE, val |-> x]

------------------------------------------------------------------------------
(* Keys, nonces, payloads *)

\* The minimum is for new archives only.
validate_encryption_password(password) == password \notin Weak

validate_argon2_params(cost) == MinCost <= cost /\ cost <= MaxCost

derive_key(password, salt, cost) ==
    IF validate_argon2_params(cost)
    THEN Done([password |-> password, salt |-> salt, cost |-> cost])
    ELSE Failed

compute_verification_tag(key) == [tag_of |-> key]

\* Random bytes do not repeat: the value drawn for an archive is its own.
generate_salt(v) == [salt |-> v]
generate_nonce(v) == [nonce |-> v]

derive_block_nonce(master, id) == [master |-> master, id |-> id]

build_block_aad(cipher, id) == [cipher |-> cipher, id |-> id]

\* An authenticated cipher opens exactly what it sealed.
AeadSeal(cipher, key, nonce, aad, plaintext) ==
    [cipher |-> cipher, key |-> key, nonce |-> nonce, aad |-> aad, msg |-> plaintext]
AeadOpen(cipher, key, nonce, aad, text) ==
    IF AeadSeal(cipher, key, nonce, aad, text.msg) = text THEN Done(text.msg) ELSE Failed

encrypt_block(cipher, key, master, id, plaintext) ==
    LET nonce == derive_block_nonce(master, id)
    IN  [nonce |-> nonce,
         text |-> AeadSeal(cipher, key, nonce, build_block_aad(cipher, id), plaintext)]

decrypt_block(cipher, key, master, id, payload) ==
    IF payload.nonce = derive_block_nonce(master, id)
    THEN AeadOpen(cipher, key, payload.nonce, build_block_aad(cipher, id), payload.text)
    ELSE Failed

\* The cached cipher of a BlockCryptor does what the free functions do.
BlockCryptor(cipher, key, master) == [cipher |-> cipher, key |-> key, master |-> master]
cryptor_encrypt(c, id, plaintext) == encrypt_block(c.cipher, c.key, c.master, id, plaintext)
cryptor_decrypt(c, id, payload) == decrypt_block(c.cipher, c.key, c.master, id, payload)
encrypt_metadata(c, plaintext) == cryptor_encrypt(c, EncryptedMetadataBlockId, plaintext)
decrypt_metadata(c, payload) == cryptor_decrypt(c, EncryptedMetadataBlockId, payload)

------------------------------------------------------------------------------
(* Headers *)

Header(v, cipher, key) ==
    [version |-> 1, cipher |-> cipher, salt |-> generate_salt(v), cost |-> key.cost,
     master |-> generate_nonce(v), tag |-> compute_verification_tag(key)]

\* A header is refused for its version, its cipher or its costs before any
\* key is derived from it.
read_header(h) ==
    IF h.version = 1 /\ h.cipher \in CipherId /\ validate_argon2_params(h.cost)
    THEN Done(h) ELSE Failed

verify_password(h, key) == h.tag = compute_verification_tag(key)

derive_decrypt_key(h, password) ==
    LET key == derive_key(password, h.salt, h.cost) IN
    IF read_header(h).ok /\ key.ok /\ verify_password(h, key.val) THEN key ELSE Failed

\* What a reader gets for block `id` of the archive a.
Read(a, id, password) ==
    LET key == derive_decrypt_key(a.header, password) IN
    IF key.ok THEN decrypt_block(a.header.cipher, key.val, a.header.master, id, a.payload[id])
    ELSE Failed

ReadMetadata(a, password) ==
    LET key == derive_decrypt_key(a.header, password) IN
    IF key.ok
    THEN decrypt_metadata(BlockCryptor(a.header.cipher, key.val, a.header.master), a.metadata)
    ELSE Failed

------------------------------------------------------------------------------
(* Writing *)

Nothing == [nothing |-> 0]
NoPayload == [nonce |-> Nothing, text |-> AeadSeal("none", Nothing, Nothing, Nothing, "none")]
NoHeader == [version |-> 0, cipher |-> "none", salt |-> Nothing, cost |-> 0,
             master |-> Nothing, tag |-> Nothing]
Unwritten == [header |-> NoHeader, payload |-> [id \in 0 .. MaxId |-> NoPayload],
              metadata |-> NoPayload]
NoWriter == [state |-> "new"]

CryptoInit ==
    /\ vault = [v \in Vaults |-> Unwritten]
    /\ writer = [v \in Vaults |-> NoWriter]
    /\ sealed = {}
    /\ damages = 0

Seals(v, id, plaintext) ==
    sealed' = sealed \cup {[password |-> writer[v].key.password, header |-> writer[v].header,
                            id |-> id, msg |-> plaintext]}

BeginEncrypted(v, password, cipher) ==
    /\ writer[v].state = "new"
    /\ validate_encryption_password(password)
    /\ LET key == derive_key(password, generate_salt(v), DefaultCost)
           h == Header(v, cipher, key.val)
       IN  /\ key.ok
           /\ writer' = [writer EXCEPT ![v] = [state |-> "open", header |-> h,
                                               key |-> key.val, next |-> 0]]
           /\ vault' = [vault EXCEPT ![v].header = h]
    /\ UNCHANGED <<sealed, damages>>

\* Mutant: the counter wraps around.
advance_block_id_wrapping(w) == [w EXCEPT !.next = (w.next + 1) % (MaxId + 1)]

\* The counter is advanced with checked_add after the block was written: the
\* block with id u32::MAX is sealed and stored, and then the writer fails.
advance_block_id(w) ==
    IF w.next < MaxId THEN [w EXCEPT !.next = w.next + 1] ELSE [w EXCEPT !.state = "failed"]

SealBlock(v, plaintext) ==
    LET w == writer[v] IN
    /\ w.state = "open"
    /\ vault' = [vault EXCEPT ![v].payload[w.next] =
                    encrypt_block(w.header.cipher, w.key, w.header.master, w.next, plaintext)]
    /\ writer' = [writer EXCEPT ![v] = advance_block_id(w)]
    /\ Seals(v, w.next, plaintext)
    /\ UNCHANGED damages

\* The metadata are sealed by a caller of the public function once the blocks
\* are written (the pipeline itself stores them in the clear).
SealMetadata(v, plaintext) ==
    LET w == writer[v] IN
    /\ w.state = "open"
    /\ vault' = [vault EXCEPT ![v].metadata =
                    encrypt_metadata(BlockCryptor(w.header.cipher, w.key, w.header.master),
                                     plaintext)]
    /\ writer' = [writer EXCEPT ![v].state = "closed"]
    /\ Seals(v, EncryptedMetadataBlockId, plaintext)
    /\ UNCHANGED damages

------------------------------------------------------------------------------
(* Damage *)

\* Archives are damaged at rest, when no writer is at work.
Damage ==
    /\ \A v \in Vaults : writer[v].state # "open"
    /\ damages < MaxDamage /\ damages' = damages + 1
    /\ UNCHANGED <<writer, sealed>>

\* A payload of one place in another.
Misplace(v, id, from) ==
    /\ Damage
    /\ \E i \in 0 .. MaxId :
          vault' = [vault EXCEPT ![v].payload[id] = vault[from].payload[i]]

MisplaceMetadata(v, from) ==
    /\ Damage
    /\ \/ \E i \in 0 .. MaxId : vault' = [vault EXCEPT ![v].metadata = vault[from].payload[i]]
       \/ \E i \in 0 .. MaxId : vault' = [vault EXCEPT ![v].payload[i] = vault[from].metadata]

\* One field of a header replaced by another value of its kind.
DamageHeader(v) ==
    /\ Damage
    /\ \/ \E c \in CipherId \cup {"unknown"} : vault' = [vault EXCEPT ![v].header.cipher = c]
       \/ \E c \in Costs : vault' = [vault EXCEPT ![v].header.cost = c]
       \/ \E w \in Vaults : vault' = [vault EXCEPT ![v].header.salt = generate_salt(w)]
       \/ \E w \in Vaults : vault' = [vault EXCEPT ![v].header.master = generate_nonce(w)]
       \/ \E w \in Vaults : vault' = [vault EXCEPT ![v].header.tag = vault[w].header.tag]
       \/ \E w \in Vaults : vault' = [vault EXCEPT ![v].header = vault[w].header]

CryptoNext ==
    \/ \E v \in Vaults, password \in Passwords, cipher \in CipherId :
          BeginEncrypted(v, password, cipher)
    \/ \E v \in Vaults, plaintext \in Plaintexts :
          SealBlock(v, plaintext) \/ SealMetadata(v, plaintext)
    \/ \E v, from \in Vaults : \E id \in 0 .. MaxId : Misplace(v, id, from)
    \/ \E v, from \in Vaults : MisplaceMetadata(v, from)
    \/ \E v \in Vaults : DamageHeader(v)

CryptoSpec == CryptoInit /\ [][CryptoNext]_cryptoVars

------------------------------------------------------------------------------
\* No nonce is used for two messages under one key: ids are never reused
\* within an archive, the counter running into u32::MAX included, the id
\* reserved for the metadata is never also a block's, and archives of the
\* same password differ in their salts.
OneMessagePerNonce ==
    \A a, b \in sealed :
       (/\ a.password = b.password /\ a.header.salt = b.header.salt
        /\ a.header.cost = b.header.cost
        /\ derive_block_nonce(a.header.master, a.id) = derive_block_nonce(b.header.master, b.id))
         => a = b

\* Whatever happened to the stored bytes, what a reader accepts for block id
\* with a password was sealed with this password, under the header that is
\* in the archive now, for this id: payloads moved within an archive or
\* between archives, and headers with a foreign field, never open as
\* something else.
OpensAsSealed ==
    \A v \in Vaults, password \in Passwords :
       /\ \A id \in 0 .. MaxId :
             LET r == Read(vault[v], id, password) IN
             r.ok => [password |-> password, header |-> vault[v].header, id |-> id,
                      msg |-> r.val] \in sealed
       /\ LET r == ReadMetadata(vault[v], password) IN
          r.ok => [password |-> password, header |-> vault[v].header,
                   id |-> EncryptedMetadataBlockId, msg |-> r.val] \in sealed

\* Encryption keeps both its promises: no nonce serves two messages, and a
\* payload opens only as what was sealed at its place.
SealingSound == OneMessagePerNonce /\ OpensAsSealed
==============================================================================
