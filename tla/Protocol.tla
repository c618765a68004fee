-------------------------------- MODULE Protocol --------------------------------
(***************************************************************************)
(* The wire messages (cb-core/src/protocol.rs) and the sealing they use    *)
(* (cb-core/src/crypto.rs).  A key or a text is an atom; a ciphertext is a *)
(* record that only its own key opens; base64 is a tagged wrapper, so that *)
(* undoing it on data that was never encoded is an error.  Timestamps are  *)
(* left out: no receiver reads them.  `None' is an Err result.             *)
(***************************************************************************)
EXTENDS Clipboard

CONSTANT Keys   \* the 32-byte keys in use on the network

-----------------------------------------------------------------------------
\* base64 STANDARD engine
Base64(d)    == <<"base64", d>>
Unbase64(s)  == IF s \in {Base64(d) : d \in Images} THEN s[2] ELSE None

ASSUME KeysAssumption ==
    /\ None \notin Keys
    /\ \A d \in Images : Base64(d) # None

\* crypto::encrypt_string and decrypt_string (ChaCha20-Poly1305)
encrypt_string(k, p) == [key |-> k, plain |-> p]

\* Fault variant of decrypt_string: the tag is not checked.
decrypt_stringUnchecked(k, s) == s.plain

decrypt_string(k, s) == IF s.key = k THEN s.plain ELSE None

\* Message constructors
clipboard(t) == [type |-> "clipboard", text |-> t]
image(d)     == [type |-> "image", data |-> Base64(d)]
ack          == [type |-> "ack"]

encrypted(k, ct, p) ==
    [type |-> "encrypted", data |-> encrypt_string(k, p), content_type |-> ct]

from_content(c) == IF c.kind = "text" THEN clipboard(c.data) ELSE image(c.data)

\* encrypted_text seals the text, encrypted_image the base64 of the bytes
encrypted_content(c, k) ==
    IF c.kind = "text" THEN encrypted(k, "text", c.data)
                       ELSE encrypted(k, "image", Base64(c.data))

is_encrypted(m) == m.type = "encrypted"

\* Fault variant of Decoded: the bytes of an image are not decoded.
DecodedRaw(ct, p) == IF ct = "text" THEN Text(p) ELSE Image(p)

\* The content behind an opened payload; image data that is no base64 is an error.
Decoded(ct, p) ==
    IF ct = "text" THEN Text(p)
    ELSE IF Unbase64(p) = None THEN None ELSE Image(Unbase64(p))

\* Message::content: the content of an unencrypted message
content(m) ==
    IF m.type = "clipboard" THEN Text(m.text)
    ELSE IF m.type = "image" THEN Decoded("image", m.data) ELSE None

\* Message::decrypt_content: an unencrypted message passes without the key
decrypt_content(m, k) ==
    IF ~is_encrypted(m) THEN content(m)
    ELSE LET p == decrypt_string(k, m.data)
         IN  IF p = None THEN None ELSE Decoded(m.content_type, p)

\* What a sender puts on the wire: sealed with its key, or in the clear when
\* the command line tool has none.
Wire(c, k) == IF k = None THEN from_content(c) ELSE encrypted_content(c, k)
=============================================================================
