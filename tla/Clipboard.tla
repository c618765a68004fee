------------------------------- MODULE Clipboard -------------------------------
(***************************************************************************)
(* The clipboard layer (cb-core/src/clipboard.rs): what the four backends  *)
(* read from and write to the selection of a desktop, and the content hash *)
(* the daemon compares (cb-core/src/daemon.rs).                            *)
(*                                                                         *)
(* A selection is None (nothing is offered) or a content.  Text and image  *)
(* bytes are atoms.  `None' also stands for an Err result.                 *)
(***************************************************************************)
CONSTANTS
    Texts,      \* the strings of the instance
    Images,     \* the PNG images of the instance
    EmptyText,  \* the string ""
    Trim,       \* Trim[t] is t without its trailing CR and LF characters
    None        \* Option::None, an Err result, an empty selection

Text(t)  == [kind |-> "text",  data |-> t]
Image(d) == [kind |-> "image", data |-> d]

\* enum ClipboardContent
Content == {Text(t) : t \in Texts} \cup {Image(d) : d \in Images}

Selection == Content \cup {None}

ASSUME ClipboardAssumption ==
    /\ EmptyText \in Texts
    /\ Trim \in [Texts -> Texts]
    /\ Trim[EmptyText] = EmptyText
    /\ \A t \in Texts : Trim[Trim[t]] = Trim[t]
    /\ None \notin Content /\ None \notin Texts /\ None \notin Images

-----------------------------------------------------------------------------
\* The backends; the first two drive wl-paste/wl-copy and xclip.
LinuxBackends == {"Wayland", "X11"}
Backends      == LinuxBackends \cup {"Wsl", "Windows"}

\* Clipboard::has_image: the WSL and Windows backends always answer false.
has_image(b, sel) ==
    /\ b \in LinuxBackends
    /\ sel \in {Image(d) : d \in Images}

\* Clipboard::read_text.  Linux returns an empty text; WSL and Windows make an
\* error of it, and on WSL PowerShell's trailing newlines are trimmed together
\* with those of the text.
linux_read_text(sel) == IF sel \in {Text(t) : t \in Texts} THEN sel ELSE None

windows_read_text(sel) == IF sel = Text(EmptyText) THEN None ELSE linux_read_text(sel)

wsl_read_text(sel) ==
    IF sel \in {Text(t) : t \in Texts} THEN windows_read_text(Text(Trim[sel.data])) ELSE None

read_text(b, sel) ==
    IF b \in LinuxBackends THEN linux_read_text(sel)
    ELSE IF b = "Wsl" THEN wsl_read_text(sel) ELSE windows_read_text(sel)

\* Clipboard::read_image, called only after has_image.
read_image(b, sel) == IF has_image(b, sel) THEN sel ELSE None

\* Clipboard::read_content.  Its two commands see one selection here: when the
\* selection changes between them the second one fails, which is a poll that
\* changes nothing.
read_content(b, sel) ==
    IF has_image(b, sel) THEN read_image(b, sel) ELSE read_text(b, sel)

\* Clipboard::write_content succeeds only for what the backend supports; the
\* selection is then the content written.
CanWrite(b, c) == c.kind = "text" \/ b \in LinuxBackends

\* daemon.rs hash_content: SHA-256 over a kind prefix and the bytes, taken to
\* be collision free.
hash_content(c) == <<c.kind, c.data>>

Hashes == {hash_content(c) : c \in Content}

\* A stored Some(hash) is not None.
ASSUME HashAssumption == None \notin Hashes
=============================================================================
