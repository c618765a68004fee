----------------------------- MODULE ProtocolProofs ------------------------------
(***************************************************************************)
(* Lemmas about the clipboard and the wire, for all contents and keys.     *)
(***************************************************************************)
EXTENDS Protocol, TLAPS

\* A backend reads a content or fails.
LEMMA ReadContentType ==
    ASSUME NEW b \in Backends, NEW sel \in Selection
    PROVE  read_content(b, sel) \in Selection
  BY ClipboardAssumption
  DEF read_content, read_image, read_text, linux_read_text, windows_read_text,
      wsl_read_text, has_image, Selection, Content, Text, Image

\* An empty selection reads as an error.
LEMMA ReadNone == \A b : read_content(b, None) = None
  BY ClipboardAssumption
  DEF read_content, read_image, read_text, linux_read_text, windows_read_text,
      wsl_read_text, has_image, Content

\* A backend changes a content only as WSL does, and nothing that WSL has read.
LEMMA ReadTrims ==
    ASSUME NEW b, NEW d
    PROVE  /\ read_content(b, d) \in {d, read_content("Wsl", d), None}
           /\ read_content(b, read_content("Wsl", d)) \in {read_content("Wsl", d), None}
  <1> DEFINE w == read_content("Wsl", d)
  <1>1. w = wsl_read_text(d)
    BY DEF read_content, read_text, has_image, LinuxBackends
  <1>2. read_content(b, d) \in {d, w, None}
    BY <1>1
    DEF read_content, read_image, read_text, linux_read_text, windows_read_text, has_image,
        LinuxBackends
  <1>3. w = None \/ \E t \in Texts : w = Text(Trim[t])
    <2>1. CASE d \in {Text(t) : t \in Texts}
      <3>1. PICK t \in Texts : d = Text(t)
        BY <2>1
      <3>2. d.data = t
        BY <3>1 DEF Text
      <3> QED
        BY <1>1, <2>1, <3>1, <3>2 DEF wsl_read_text, windows_read_text, linux_read_text
    <2>2. CASE d \notin {Text(t) : t \in Texts}
      BY <1>1, <2>2 DEF wsl_read_text
    <2> QED
      BY <2>1, <2>2
  <1>4. ASSUME w = None
        PROVE  read_content(b, w) \in {w, None}
    <2> HIDE DEF w
    <2> QED
      BY <1>4, ReadNone
  <1>5. ASSUME NEW t \in Texts, w = Text(Trim[t])
        PROVE  read_content(b, w) \in {w, None}
    <2>1. Trim[t] \in Texts /\ Trim[Trim[t]] = Trim[t] /\ w.data = Trim[t]
      BY <1>5, ClipboardAssumption DEF Text
    <2>2. wsl_read_text(w) \in {w, None}
      BY <1>5, <2>1 DEF wsl_read_text, windows_read_text, linux_read_text
    <2> HIDE DEF w
    <2> QED
      BY <2>2
      DEF read_content, read_image, read_text, linux_read_text, windows_read_text, has_image
  <1> QED
    BY <1>2, <1>3, <1>4, <1>5

LEMMA HashType ==
    ASSUME NEW c \in Content
    PROVE  hash_content(c) \in Hashes
  BY DEF Hashes

\* Base64 loses nothing and is never an error for what was encoded.
LEMMA Base64RoundTrip ==
    ASSUME NEW d \in Images
    PROVE  Unbase64(Base64(d)) = d
  BY DEF Unbase64, Base64

\* A sealed message opens with its own key, to the content it was made of, and
\* with no other key.
LEMMA SealedRoundTrip ==
    ASSUME NEW c \in Content, NEW k \in Keys, NEW kk \in Keys
    PROVE  decrypt_content(encrypted_content(c, k), kk) = IF k = kk THEN c ELSE None
  <1>1. CASE c \in {Text(t) : t \in Texts}
    <2>1. PICK t \in Texts : c = Text(t)
      BY <1>1
    <2>2. encrypted_content(c, k) = encrypted(k, "text", t)
      BY <2>1 DEF encrypted_content, Text
    <2> QED
      BY <2>1, <2>2, ClipboardAssumption DEF decrypt_content, Decoded, encrypted, is_encrypted, encrypt_string, decrypt_string
  <1>2. CASE c \in {Image(d) : d \in Images}
    <2>1. PICK d \in Images : c = Image(d)
      BY <1>2
    <2>2. encrypted_content(c, k) = encrypted(k, "image", Base64(d))
      BY <2>1 DEF encrypted_content, Image
    <2>3. Unbase64(Base64(d)) = d
      BY Base64RoundTrip
    <2>4. Base64(d) # None /\ d # None
      BY KeysAssumption, ClipboardAssumption
    <2> QED
      BY <2>1, <2>2, <2>3, <2>4 DEF decrypt_content, Decoded, encrypted, is_encrypted, encrypt_string, decrypt_string
  <1> QED
    BY <1>1, <1>2 DEF Content

\* A content in the clear comes out of its message as it went in.
LEMMA ClearRoundTrip ==
    ASSUME NEW c \in Content
    PROVE  content(from_content(c)) = c /\ ~is_encrypted(from_content(c))
  <1>1. CASE c \in {Text(t) : t \in Texts}
    BY <1>1 DEF Text, content, from_content, clipboard, is_encrypted
  <1>2. CASE c \in {Image(d) : d \in Images}
    <2>1. PICK d \in Images : c = Image(d)
      BY <1>2
    <2>2. from_content(c) = image(d) /\ image(d).type = "image" /\ image(d).data = Base64(d)
      BY <2>1 DEF from_content, Image, image
    <2>3. Unbase64(Base64(d)) = d /\ d # None
      BY Base64RoundTrip, ClipboardAssumption
    <2> QED
      BY <2>1, <2>2, <2>3 DEF content, Decoded, is_encrypted
  <1> QED
    BY <1>1, <1>2 DEF Content
=============================================================================
