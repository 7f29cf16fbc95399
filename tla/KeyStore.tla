------------------------------ MODULE KeyStore ------------------------------
(***************************************************************************)
(* The two files KeyManager keeps for an identity, name.pub and name.key,  *)
(* and the runs of key_manager that write them: save_identity has neither  *)
(* a temporary file nor a lock, so that a crash, or a second run, falls    *)
(* between any two of its file operations.  write_text truncates the file  *)
(* and then writes it in one piece, from its beginning.                    *)
(***************************************************************************)
EXTENDS Naturals, FiniteSets

CONSTANTS
    Savers,         \* runs of save_identity, each with an identity of its own
    Encrypted,      \* those that are given a password
    Nobody          \* no run

\* What a file holds when it holds no identity.
Lacking == {"missing", "empty", "garbled"}

ASSUME KeyStoreAssumption ==
    /\ Encrypted \subseteq Savers
    /\ Nobody \notin Savers
    /\ Savers \cap Lacking = {}

VARIABLES
    pub,            \* contents of name.pub
    key,            \* contents of name.key
    save,           \* how far each run is
    last,           \* the run that began last
    overlapped,     \* another run was under way at some time of that run
    published       \* identities that name.pub has held

keyStoreVars == <<pub, key, save, last, overlapped, published>>

Contents == Savers \cup Lacking
Steps == {"idle", "pub opened", "pub written", "key opened", "done", "crashed"}
Underway == {"pub opened", "pub written", "key opened"}

KeyStoreInit ==
    /\ pub = "missing" /\ key = "missing"
    /\ save = [s \in Savers |-> "idle"]
    /\ last = Nobody /\ overlapped = FALSE /\ published = {}

KeyStoreTypeOK ==
    /\ pub \in Contents \ {"garbled"} /\ key \in Contents
    /\ save \in [Savers -> Steps] /\ last \in Savers \cup {Nobody}
    /\ overlapped \in BOOLEAN /\ published \subseteq Savers

NotTruncated(file) == IF file = "missing" THEN "empty" ELSE file   \* mutant

\* open(..., 'w'): what the file holds from then on.
Truncated(file) == "empty"

\* Writing s's text over what the file holds.  The lines of name.pub are as
\* long as each other; a plain name.key is shorter than an encrypted one and
\* leaves the end of it standing.
OverPub(s) == s
OverKey(s) == IF s \notin Encrypted /\ key \in Encrypted \cup {"garbled"} THEN "garbled" ELSE s

Advance(s, from, to) == save[s] = from /\ save' = [save EXCEPT ![s] = to]

OpenPub(s) ==
    /\ Advance(s, "idle", "pub opened")
    /\ pub' = Truncated(pub)
    /\ last' = s
    /\ overlapped' = (\E o \in Savers : save[o] \in Underway)
    /\ UNCHANGED <<key, published>>

WritePub(s) ==
    /\ Advance(s, "pub opened", "pub written")
    /\ pub' = OverPub(s) /\ published' = published \cup {s}
    /\ UNCHANGED <<key, last, overlapped>>

\* Mutant: the private key before the public one.
OpenKeyUnwritten(s) ==
    /\ Advance(s, "pub opened", "key opened")
    /\ key' = Truncated(key)
    /\ UNCHANGED <<pub, last, overlapped, published>>

OpenKey(s) ==
    /\ Advance(s, "pub written", "key opened")
    /\ key' = Truncated(key)
    /\ UNCHANGED <<pub, last, overlapped, published>>

WriteKey(s) ==
    /\ Advance(s, "key opened", "done")
    /\ key' = OverKey(s)
    /\ UNCHANGED <<pub, last, overlapped, published>>

Crash(s) ==
    /\ save[s] \in Underway /\ save' = [save EXCEPT ![s] = "crashed"]
    /\ UNCHANGED <<pub, key, last, overlapped, published>>

save_identity(s) == OpenPub(s) \/ WritePub(s) \/ OpenKey(s) \/ WriteKey(s) \/ Crash(s)

\* load_identity returns the identity in name.key, if it is there (else
\* FileNotFoundError), parses (else a ValueError) and, when it is encrypted,
\* comes with its password (else CryptoException).
Loadable(passwords) == key \in Savers /\ (key \in Encrypted => key \in passwords)
=============================================================================
