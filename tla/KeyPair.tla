------------------------------ MODULE KeyPair ------------------------------
(***************************************************************************)
(* The RSA key pair that signs the access tokens: LoadOrGenerateKeyPair    *)
(* reads it from two PEM files at the start of the process, or draws one   *)
(* and writes both files. os.WriteFile empties a file before it fills it,  *)
(* so that the end of the process in between leaves one that does not      *)
(* decode.                                                                 *)
(***************************************************************************)
EXTENDS Naturals, Sequences, FiniteSets

CONSTANTS
    Keys,      \* the keys there are to draw: a bound on the fresh ones
    Absent,    \* the content of a file that is not there
    Torn,      \* of one that was emptied and not filled
    None       \* a nil pointer

ASSUME KeysAssumption ==
    /\ Absent # Torn
    /\ {Absent, Torn, None} \cap Keys = {}

VARIABLES
    files,     \* the two PEM files
    key,       \* the key in the memory of the process
    drawn,     \* the keys generated so far
    keyStep,   \* where LoadOrGenerateKeyPair is
    saved,     \* how many of the files it has written
    overlooked \* history: how many times it overwrote a pair that was there

keyVars == <<files, key, drawn, keyStep, saved, overlooked>>

Files == {"private", "public"}

KeySteps == {"idle", "check", "open", "write", "ok", "unreadable", "error"}

\* os.Stat returns no error. It does for a file that is not there, and may for
\* one that is, called unseen here (an I/O error, a stale handle): both mean that
\* the file does not exist.
fileExists(f, unseen) == files[f] # Absent /\ f # unseen

\* Mutant: the public key is written first.
SaveOrder_PublicFirst == <<"public", "private">>

\* Mutant: the public key is not written.
SaveOrder_PrivateOnly == <<"private">>

\* savePrivateKey, then savePublicKey.
SaveOrder == <<"private", "public">>

\* Both files are there: the private one is read, the public one is not.
LoadPrivateKey(unseen) ==
    /\ keyStep = "check"
    /\ \A f \in Files : fileExists(f, unseen)
    /\ \/ /\ files["private"] \in Keys
          /\ key' = files["private"]
          /\ keyStep' = "ok"
       \/ /\ files["private"] = Torn
          /\ keyStep' = "unreadable"
          /\ UNCHANGED key
    /\ UNCHANGED <<files, drawn, saved, overlooked>>

GenerateKey(unseen) ==
    /\ keyStep = "check"
    /\ \E f \in Files : ~fileExists(f, unseen)
    /\ overlooked' = IF \E f \in Files : files[f] = Absent THEN overlooked ELSE overlooked + 1
    /\ \E k \in Keys \ drawn : key' = k /\ drawn' = drawn \cup {k}
    /\ keyStep' = "open"
    /\ UNCHANGED <<files, saved>>

OpenFile ==
    /\ keyStep = "open"
    /\ files' = [files EXCEPT ![SaveOrder[saved + 1]] = Torn]
    /\ keyStep' = "write"
    /\ UNCHANGED <<key, drawn, saved, overlooked>>

\* A file lost since it was opened takes what is written with it.
WriteFile ==
    /\ keyStep = "write"
    /\ files' = [files EXCEPT ![SaveOrder[saved + 1]] = IF @ = Absent THEN @ ELSE key]
    /\ saved' = saved + 1
    /\ keyStep' = IF saved + 1 = Len(SaveOrder) THEN "ok" ELSE "open"
    /\ UNCHANGED <<key, drawn, overlooked>>

\* Reading, creating the directory, opening or writing a file fails.
FileError ==
    /\ keyStep \in {"check", "open", "write"}
    /\ keyStep' = "error"
    /\ UNCHANGED <<files, key, drawn, saved, overlooked>>

LoadOrGenerateKeyPair ==
    \/ \E unseen \in Files \cup {None} : LoadPrivateKey(unseen) \/ GenerateKey(unseen)
    \/ OpenFile
    \/ WriteFile
    \/ FileError

\* A file is deleted, or the volume it was on replaced.
LoseFile(f) ==
    /\ files[f] # Absent
    /\ files' = [files EXCEPT ![f] = Absent]
    /\ UNCHANGED <<key, drawn, keyStep, saved, overlooked>>

KeyInit ==
    /\ files = [f \in Files |-> Absent]
    /\ key = None
    /\ drawn = {}
    /\ keyStep = "idle"
    /\ saved = 0
    /\ overlooked = 0

\* The memory of the process is gone, what it did to the files stays.
ForgetKey(step) ==
    /\ key' = None
    /\ keyStep' = step
    /\ saved' = 0
    /\ UNCHANGED <<files, drawn, overlooked>>

\* What GET /.well-known/jwks.json publishes: computed once, from the key in
\* memory.
BuildJWKSet == {key}

\* The types of the files and of the key.
KeyTypeOK ==
    /\ files \in [Files -> Keys \cup {Absent, Torn}]
    /\ key \in Keys \cup {None}
    /\ drawn \subseteq Keys
    /\ keyStep \in KeySteps
    /\ saved \in 0 .. Len(SaveOrder)
    /\ overlooked \in Nat
=============================================================================
