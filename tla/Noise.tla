-------------------------------- MODULE Noise --------------------------------
(***************************************************************************)
(* The symbolic cryptography of noise.c: Noise_IKpsk2 as terms.  A key pair *)
(* is named by the tuple <<owner, serial>>, its private and its public half *)
(* alike; serial 0 is the owner's static key.  A hash, a derived key and a  *)
(* ciphertext are the terms they are computed from, so two of them are      *)
(* equal exactly when they were computed from equal inputs.                 *)
(***************************************************************************)
EXTENDS Integers, Sequences

StaticKey(e) == <<e, 0>>

\* Diffie-Hellman: either side computes the same point.
curve25519(private, public) == <<"dh", {private, public}>>

\* The i-th output of the HKDF of data under a chaining key.
kdf(i, chaining_key, data) == <<"kdf", i, chaining_key, data>>

mix_hash(hash, src) == <<"hash", hash, src>>

\* The two symmetric keys a finished handshake yields.
derive_keys(chaining_key) ==
    <<kdf(1, chaining_key, <<>>), kdf(2, chaining_key, <<>>)>>

mix_dh(c, private, public) ==
    LET dh == curve25519(private, public)
    IN  [c EXCEPT !.ck = kdf(1, c.ck, dh), !.key = kdf(2, c.ck, dh)]

mix_precomputed_dh(c, precomputed) ==
    [c EXCEPT !.ck = kdf(1, c.ck, precomputed), !.key = kdf(2, c.ck, precomputed)]

mix_psk(c, psk) ==
    [ck |-> kdf(1, c.ck, psk), hash |-> mix_hash(c.hash, kdf(2, c.ck, psk)),
     key |-> kdf(3, c.ck, psk)]

\* A cipher state: the chaining key, the transcript hash and the current key.
handshake_init(remote_static) ==
    [ck |-> <<"ck0">>, hash |-> mix_hash(<<"h0">>, remote_static), key |-> <<>>]

message_ephemeral(c, ephemeral) ==
    [c EXCEPT !.ck = kdf(1, c.ck, ephemeral), !.hash = mix_hash(c.hash, ephemeral)]

Sealed(c, plaintext) == <<"aead", c.key, c.hash, plaintext>>
Plaintext(ciphertext) == ciphertext[4]

\* The cipher state after sealing, or after opening, a ciphertext.
message_encrypt(c, plaintext) ==
    [c EXCEPT !.hash = mix_hash(c.hash, Sealed(c, plaintext))]

\* chacha20poly1305_decrypt accepts what was sealed under the same key and hash.
message_decrypt(c, ciphertext) == ciphertext = Sealed(c, Plaintext(ciphertext))

==============================================================================
