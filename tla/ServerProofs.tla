---------------------------- MODULE ServerProofs ----------------------------
(***************************************************************************)
(* What the proof system shows of Server, for any number of requests, keys *)
(* and lost files and any shutdownTimeout.                                 *)
(***************************************************************************)
EXTENDS Server, FiniteSetTheorems, TLAPS

\* run() has not reached its select yet.
StartingUp == phase \in {"down", "connect", "keys"}

\* Where LoadOrGenerateKeyPair is, and the keys in its hands and in the files.
KeyInv ==
    /\ \A f \in Files : files[f] \in drawn \cup {Absent, Torn}
    /\ keyStep \in {"open", "write", "ok"} => key \in drawn
    /\ keyStep \in {"open", "write"} => saved \in {0, 1}
    /\ keyStep = "check" => saved = 0

\* What is there while the process is in each phase.
PhaseInv ==
    /\ StartingUp => listener = "none" /\ \A r \in Requests : ~Active(r)
    /\ phase \in {"connect", "keys"} => ~serverErr
    /\ phase \in {"keys", "select", "drain", "close"} => dbOpen
    /\ phase \in {"select", "drain"} => keyStep = "ok"
    /\ serverErr => listener \in {"none", "closed"}
    /\ \A r \in Requests : Active(r) => keyStep = "ok"

\* The private file has been lost.
PrivateLost == \E i \in DOMAIN lost : lost[i] = "private"

\* Unless the private file was lost or a pair overlooked, the public file is never
\* there without the private one: a private file in the making has no public one
\* beside it.
FilesInv ==
    \/ PrivateLost
    \/ overlooked > 0
    \/ /\ files["public"] # Absent => files["private"] \in Keys
       /\ keyStep \in {"open", "write"} /\ saved = 0 => files["public"] = Absent
       /\ keyStep = "write" /\ saved = 0 => files["private"] = Torn
       /\ keyStep \in {"open", "write"} /\ saved = 1 => files["private"] \in Keys
       /\ keyStep # "unreadable"

\* Whoever is in progress when run() returns was given the full time, or the
\* listener had failed.
LeftInv ==
    phase \in {"close", "flush"} => \A r \in Requests : Active(r) =>
        exit = 1 /\ (elapsed = shutdownTimeout \/ serverErr)

ServerInv == ServerTypeOK /\ KeyInv /\ PhaseInv /\ FilesInv /\ LeftInv

-----------------------------------------------------------------------------
(* The key files *)

\* The private file comes first.
LEMMA TwoFiles ==
    Len(SaveOrder) = 2 /\ SaveOrder[1] = "private" /\ SaveOrder[2] = "public"
BY DEF SaveOrder

\* Before the first start there is no file and no key.
LEMMA KeyInitInv == KeyInit => KeyTypeOK /\ KeyInv
BY TwoFiles DEF KeyInit, KeyTypeOK, KeyInv, Files, KeySteps

\* The loader keeps its types, and holds only keys that were drawn.
LEMMA LoaderKeepsKeys ==
    ASSUME KeyTypeOK, KeyInv, LoadOrGenerateKeyPair
    PROVE  KeyTypeOK' /\ KeyInv'
<1> USE KeysAssumption, TwoFiles DEF KeyTypeOK, KeyInv, KeySteps
<1>1. CASE \E unseen \in Files \cup {None} : LoadPrivateKey(unseen)
  BY <1>1 DEF LoadPrivateKey, Files, fileExists
<1>2. CASE \E unseen \in Files \cup {None} : GenerateKey(unseen)
  BY <1>2 DEF GenerateKey
<1>3. CASE OpenFile
  BY <1>3 DEF OpenFile, Files
<1>4. CASE WriteFile
  BY <1>4 DEF WriteFile, Files
<1>5. CASE FileError
  BY <1>5 DEF FileError
<1> QED
  BY <1>1, <1>2, <1>3, <1>4, <1>5 DEF LoadOrGenerateKeyPair

\* The end of the process leaves the files as they are.
LEMMA ForgettingKeepsKeys ==
    ASSUME KeyTypeOK, KeyInv, NEW s \in {"idle", "check"}, ForgetKey(s)
    PROVE  KeyTypeOK' /\ KeyInv'
BY TwoFiles DEF KeyTypeOK, KeyInv, ForgetKey, KeySteps

\* A lost file takes nothing from the loader but the file.
LEMMA LosingKeepsKeys ==
    ASSUME KeyTypeOK, KeyInv, NEW f \in Files, LoseFile(f)
    PROVE  KeyTypeOK' /\ KeyInv'
BY DEF KeyTypeOK, KeyInv, LoseFile

\* Without the loss of the private file, and without overlooking a pair, the
\* loader never finds a private file that it cannot read.
LEMMA LoaderKeepsFiles ==
    ASSUME KeyTypeOK, KeyInv, FilesInv, LoadOrGenerateKeyPair, UNCHANGED lost
    PROVE  FilesInv'
<1> USE KeysAssumption, TwoFiles DEF KeyTypeOK, KeyInv, FilesInv, PrivateLost, Files
<1>1. CASE \E unseen \in Files \cup {None} : LoadPrivateKey(unseen)
  BY <1>1 DEF LoadPrivateKey, fileExists
<1>2. CASE \E unseen \in Files \cup {None} : GenerateKey(unseen)
  BY <1>2 DEF GenerateKey, fileExists
<1>3. CASE OpenFile
  BY <1>3 DEF OpenFile
<1>4. CASE WriteFile
  BY <1>4 DEF WriteFile
<1>5. CASE FileError
  BY <1>5 DEF FileError
<1> QED
  BY <1>1, <1>2, <1>3, <1>4, <1>5 DEF LoadOrGenerateKeyPair

\* The end of the process leaves no trace but the files.
LEMMA ForgettingKeepsFiles ==
    ASSUME FilesInv, NEW s \in {"idle", "check"}, ForgetKey(s), UNCHANGED lost
    PROVE  FilesInv'
BY DEF FilesInv, PrivateLost, ForgetKey

\* Once recorded, a loss stays recorded.
LEMMA LossRecorded ==
    ASSUME lost \in Seq(Files), NEW f \in Files, lost' = Append(lost, f)
    PROVE  /\ PrivateLost => PrivateLost'
           /\ f = "private" => PrivateLost'
<1>1. /\ lost' \in Seq(Files)
      /\ Len(lost') = Len(lost) + 1
      /\ lost'[Len(lost) + 1] = f
      /\ \A i \in 1 .. Len(lost) : lost'[i] = lost[i]
  OBVIOUS
<1>2. DOMAIN lost = 1 .. Len(lost) /\ DOMAIN lost' = 1 .. Len(lost')
  BY <1>1
<1>3. Len(lost) \in Nat
  OBVIOUS
<1> QED
  BY <1>1, <1>2, <1>3 DEF PrivateLost

\* A lost public file makes nothing unreadable; a lost private one is recorded.
LEMMA LosingKeepsFiles ==
    ASSUME KeyTypeOK, FilesInv, lost \in Seq(Files),
           NEW f \in Files, LoseFile(f), lost' = Append(lost, f)
    PROVE  FilesInv'
<1>1. CASE PrivateLost \/ f = "private"
  BY <1>1, LossRecorded DEF FilesInv
<1>2. CASE ~PrivateLost /\ f = "public"
  BY <1>2, KeysAssumption DEF FilesInv, LoseFile, KeyTypeOK, Files
<1> QED
  BY <1>1, <1>2 DEF Files

-----------------------------------------------------------------------------
(* The process *)

\* What a step may do to the keys and to the history: one of five things.
LEMMA HistoryMoves ==
    ASSUME ServerInv, [ServerNext]_serverVars
    PROVE  \/ LoadOrGenerateKeyPair /\ UNCHANGED <<issued, lost>>
           \/ \E s \in {"idle", "check"} : ForgetKey(s) /\ UNCHANGED <<issued, lost>>
           \/ \E f \in Files : LoseFile(f) /\ UNCHANGED issued /\ lost' = Append(lost, f)
           \/ keyStep = "ok" /\ issued' = issued \cup {key} /\ UNCHANGED <<keyVars, lost>>
           \/ UNCHANGED <<keyVars, issued, lost>>
<1>1. CASE Start \/ Connect
  BY <1>1 DEF Start, Connect
<1>2. CASE LoadKeys
  BY <1>2 DEF LoadKeys, lifeVars
<1>3. CASE Exit \/ Kill
  BY <1>3 DEF Exit, Kill, Die
<1>4. CASE \E f \in Files : Lose(f)
  BY <1>4 DEF Lose
<1>5. CASE ConnectFails \/ KeysFail \/ Serve \/ Listen \/ AcceptFails
  BY <1>5 DEF ConnectFails, KeysFail, Serve, Listen, AcceptFails
<1>6. CASE \E r \in Requests : Accept(r) \/ Respond(r)
  BY <1>6 DEF Accept, Respond, ServerInv, PhaseInv
<1>7. CASE Signal \/ Tick \/ SelectSignal \/ SelectError \/ Drained \/ DrainTimesOut \/ CloseDB
  BY <1>7 DEF Signal, Tick, SelectSignal, SelectError, Drained, DrainTimesOut, CloseDB
<1>8. CASE Exhausted \/ UNCHANGED serverVars
  BY <1>8 DEF Exhausted, serverVars
<1> QED
  BY <1>1, <1>2, <1>3, <1>4, <1>5, <1>6, <1>7, <1>8 DEF ServerNext, Main

\* No step breaks what the loader needs to know of the files.
LEMMA KeysStep ==
    ASSUME ServerInv, [ServerNext]_serverVars
    PROVE  KeyTypeOK' /\ KeyInv' /\ FilesInv'
<1>1. KeyTypeOK /\ KeyInv /\ FilesInv /\ lost \in Seq(Files)
  BY DEF ServerInv, ServerTypeOK
<1>2. CASE LoadOrGenerateKeyPair /\ UNCHANGED <<issued, lost>>
  BY <1>1, <1>2, LoaderKeepsKeys, LoaderKeepsFiles
<1>3. CASE \E s \in {"idle", "check"} : ForgetKey(s) /\ UNCHANGED <<issued, lost>>
  BY <1>1, <1>3, ForgettingKeepsKeys, ForgettingKeepsFiles
<1>4. CASE \E f \in Files : LoseFile(f) /\ UNCHANGED issued /\ lost' = Append(lost, f)
  BY <1>1, <1>4, LosingKeepsKeys, LosingKeepsFiles
<1>5. CASE UNCHANGED <<keyVars, lost>>
  BY <1>1, <1>5 DEF keyVars, KeyTypeOK, KeyInv, FilesInv, PrivateLost
<1> QED
  BY <1>2, <1>3, <1>4, <1>5, HistoryMoves

\* The invariant holds at the start.
LEMMA InitInv == ServerInit => ServerInv
<1> SUFFICES ASSUME ServerInit PROVE ServerInv
  OBVIOUS
<1>1. KeyTypeOK /\ KeyInv /\ FilesInv
  BY KeyInitInv DEF ServerInit, KeyInit, FilesInv, Files
<1>2. ServerTypeOK
  <2>1. signalled \in BOOLEAN /\ serverErr \in BOOLEAN /\ dbOpen \in BOOLEAN
    BY DEF ServerInit
  <2>2. elapsed \in 0 .. shutdownTimeout /\ lost \in Seq(Files)
    BY ServerAssumption DEF ServerInit
  <2>3. /\ phase \in Phases /\ listener = "none" /\ exit = None /\ issued \subseteq drawn
        /\ state \in [Requests -> {"idle", "active", "answered", "failed", "cut"}]
    BY DEF ServerInit, Phases
  <2> QED
    BY <1>1, <2>1, <2>2, <2>3 DEF ServerTypeOK
<1>3. PhaseInv /\ LeftInv
  BY DEF ServerInit, PhaseInv, LeftInv, StartingUp, Active
<1> QED
  BY <1>1, <1>2, <1>3 DEF ServerInv

\* Types, and that requests are served only by a process that is ready for them.
LEMMA TypeStep ==
    ASSUME ServerInv, [ServerNext]_serverVars
    PROVE  ServerTypeOK'
<1> USE ServerAssumption DEF ServerInv, ServerTypeOK, PhaseInv, StartingUp, Phases, Active
<1>0. KeyTypeOK' /\ KeyInv'
  BY KeysStep
<1>1. CASE Start
  <2>1. signalled' \in BOOLEAN /\ serverErr' \in BOOLEAN /\ dbOpen' \in BOOLEAN
    BY <1>1 DEF Start
  <2>2. elapsed' \in 0 .. shutdownTimeout
    BY <1>1 DEF Start
  <2>3. /\ phase' \in Phases /\ listener' = "none" /\ exit' = None
        /\ issued' \subseteq drawn' /\ UNCHANGED <<state, lost>>
    BY <1>1 DEF Start, ForgetKey
  <2> QED
    BY <1>0, <2>1, <2>2, <2>3
<1>2. CASE Connect
  BY <1>0, <1>2 DEF Connect, ForgetKey
<1>3. CASE LoadKeys
  BY <1>0, <1>3 DEF LoadKeys, lifeVars, LoadOrGenerateKeyPair, LoadPrivateKey, GenerateKey, OpenFile,
                    WriteFile, FileError
<1>4. CASE Exit \/ Kill
  <2>1. signalled' \in BOOLEAN /\ serverErr' \in BOOLEAN /\ dbOpen' \in BOOLEAN
    BY <1>4 DEF Exit, Kill, Die
  <2>2. exit' \in {0, 1, 137, None}
    BY <1>4 DEF Exit, Kill
  <2>3. /\ phase' \in Phases /\ listener' = "none"
        /\ issued' \subseteq drawn' /\ UNCHANGED <<elapsed, lost>>
        /\ state' \in [Requests -> {"idle", "active", "answered", "failed", "cut"}]
    BY <1>4 DEF Exit, Kill, Die, ForgetKey
  <2> QED
    BY <1>0, <2>1, <2>2, <2>3
<1>5. CASE \E f \in Files : Lose(f)
  BY <1>0, <1>5 DEF Lose, LoseFile
<1>6. CASE ConnectFails \/ KeysFail \/ Serve
  BY <1>0, <1>6 DEF ConnectFails, KeysFail, Serve, keyVars
<1>7. CASE Listen \/ AcceptFails
  <2>1. CASE Listen
    BY <1>0, <2>1 DEF Listen, keyVars, KeyInv
  <2>2. CASE AcceptFails
    BY <1>0, <2>2 DEF AcceptFails, keyVars
  <2> QED
    BY <1>7, <2>1, <2>2
<1>8. CASE \E r \in Requests : Accept(r) \/ Respond(r)
  BY <1>0, <1>8 DEF Accept, Respond, keyVars, KeyInv
<1>9. CASE Signal \/ Tick
  <2>1. signalled' \in BOOLEAN
    BY <1>9 DEF Signal, Tick
  <2>2. elapsed' \in 0 .. shutdownTimeout
    BY <1>9 DEF Signal, Tick
  <2>3. UNCHANGED <<keyVars, phase, listener, serverErr, dbOpen, state, exit, issued, lost>>
    BY <1>9 DEF Signal, Tick
  <2> QED
    BY <1>0, <2>1, <2>2, <2>3 DEF keyVars
<1>10. CASE SelectSignal \/ SelectError \/ Drained \/ DrainTimesOut \/ CloseDB
  <2>1. CASE SelectSignal \/ SelectError
    BY <1>0, <2>1 DEF SelectSignal, SelectError, keyVars
  <2>2. CASE Drained \/ DrainTimesOut
    BY <1>0, <2>2 DEF Drained, DrainTimesOut, keyVars
  <2>3. CASE CloseDB
    BY <1>0, <2>3 DEF CloseDB, keyVars
  <2> QED
    BY <1>10, <2>1, <2>2, <2>3
<1>11. CASE Exhausted \/ UNCHANGED serverVars
  BY <1>0, <1>11 DEF Exhausted, serverVars, keyVars
<1> QED
  BY <1>1, <1>2, <1>3, <1>4, <1>5, <1>6, <1>7, <1>8, <1>9, <1>10, <1>11 DEF ServerNext, Main

\* Each phase of run() finds what the ones before it have set up.
LEMMA PhaseStep ==
    ASSUME ServerInv, [ServerNext]_serverVars
    PROVE  PhaseInv'
<1> USE DEF ServerInv, ServerTypeOK, PhaseInv, StartingUp, Phases, Active
<1>1. CASE Start
  BY <1>1 DEF Start, ForgetKey
<1>2. CASE Connect
  BY <1>2 DEF Connect, ForgetKey
<1>3. CASE LoadKeys
  BY <1>3 DEF LoadKeys, lifeVars
<1>4. CASE Exit \/ Kill
  BY <1>4 DEF Exit, Kill, Die, ForgetKey
<1>5. CASE \E f \in Files : Lose(f)
  BY <1>5 DEF Lose, LoseFile
<1>6. CASE ConnectFails \/ KeysFail \/ Serve
  BY <1>6 DEF ConnectFails, KeysFail, Serve, keyVars
<1>7. CASE Listen \/ AcceptFails
  BY <1>7 DEF Listen, AcceptFails, keyVars
<1>8. CASE \E r \in Requests : Accept(r) \/ Respond(r)
  BY <1>8 DEF Accept, Respond, keyVars
<1>9. CASE Signal \/ Tick
  BY <1>9 DEF Signal, Tick, keyVars
<1>10. CASE SelectSignal \/ SelectError \/ Drained \/ DrainTimesOut \/ CloseDB
  BY <1>10 DEF SelectSignal, SelectError, Drained, DrainTimesOut, CloseDB, keyVars
<1>11. CASE Exhausted \/ UNCHANGED serverVars
  BY <1>11 DEF Exhausted, serverVars, keyVars
<1> QED
  BY <1>1, <1>2, <1>3, <1>4, <1>5, <1>6, <1>7, <1>8, <1>9, <1>10, <1>11 DEF ServerNext, Main

\* run() returns with requests in progress only after the full drain, or because
\* the listener had failed.
LEMMA LeftStep ==
    ASSUME ServerInv, [ServerNext]_serverVars
    PROVE  LeftInv'
<1> USE DEF ServerInv, ServerTypeOK, PhaseInv, LeftInv, StartingUp, Phases, Active
<1>1. CASE Start \/ Connect \/ LoadKeys
  BY <1>1 DEF Start, Connect, LoadKeys, lifeVars
<1>2. CASE Exit \/ Kill
  BY <1>2 DEF Exit, Kill, Die
<1>3. CASE \E f \in Files : Lose(f)
  BY <1>3 DEF Lose
<1>4. CASE ConnectFails \/ KeysFail \/ Serve
  BY <1>4 DEF ConnectFails, KeysFail, Serve
<1>5. CASE Listen \/ AcceptFails
  BY <1>5 DEF Listen, AcceptFails
<1>6. CASE \E r \in Requests : Accept(r) \/ Respond(r)
  BY <1>6 DEF Accept, Respond
<1>7. CASE Signal \/ Tick
  BY <1>7 DEF Signal, Tick
<1>8. CASE SelectSignal \/ SelectError \/ Drained \/ DrainTimesOut \/ CloseDB
  BY <1>8 DEF SelectSignal, SelectError, Drained, DrainTimesOut, CloseDB
<1>9. CASE Exhausted \/ UNCHANGED serverVars
  BY <1>9 DEF Exhausted, serverVars
<1> QED
  BY <1>1, <1>2, <1>3, <1>4, <1>5, <1>6, <1>7, <1>8, <1>9 DEF ServerNext, Main

\* The inductive invariant of run() and of the key files (main.go, keys.go).
THEOREM ServerInvariant == ServerSpec => []ServerInv
<1>1. ServerInv /\ [ServerNext]_serverVars => ServerInv'
  BY KeysStep, TypeStep, PhaseStep, LeftStep DEF ServerInv
<1> QED
  BY <1>1, InitInv, PTL DEF ServerSpec

-----------------------------------------------------------------------------
(* Theorems *)

\* ServerTypeOK: the HTTP server accepts requests only while run() waits in its
\* select, with the database open and a key in memory (main.go).
THEOREM ServerTypeCorrect == ServerSpec => []ServerTypeOK
<1>1. ServerInv => ServerTypeOK
  BY DEF ServerInv
<1> QED
  BY <1>1, ServerInvariant, PTL

\* UnreadableOnlyAfterLoss: whatever start-ups were killed or failed, and at
\* whichever write, the next one can read the private key unless that file was
\* lost, or os.Stat had failed on a pair that was there (keys.go).
THEOREM StartUpsLeaveReadableFiles == ServerSpec => []UnreadableOnlyAfterLoss
<1>1. ServerInv => UnreadableOnlyAfterLoss
  BY DEF ServerInv, FilesInv, PrivateLost, UnreadableOnlyAfterLoss
<1> QED
  BY <1>1, ServerInvariant, PTL

\* DrainHonoured: an orderly end of the process takes nothing from a request in
\* progress before the drain has run its time, unless the listener had failed
\* (main.go).
THEOREM DrainsBeforeClosing == ServerSpec => DrainHonoured
<1> DEFINE Honoured ==
      \A r \in Requests : Active(r) /\ state'[r] \in {"failed", "cut"} =>
          \/ exit' = 137
          \/ exit' = 1 /\ (elapsed = shutdownTimeout \/ serverErr)
<1>1. ASSUME ServerInv, [ServerNext]_serverVars
      PROVE  [Honoured]_serverVars
  <2> SUFFICES ASSUME NEW r \in Requests, Active(r), state'[r] \in {"failed", "cut"}
               PROVE  \/ exit' = 137
                      \/ exit' = 1 /\ (elapsed = shutdownTimeout \/ serverErr)
    OBVIOUS
  <2> USE <1>1 DEF ServerInv, ServerTypeOK, PhaseInv, LeftInv, StartingUp, Phases, Active
  <2>1. CASE Exit
    BY <2>1 DEF Exit
  <2>2. CASE Kill
    BY <2>2 DEF Kill
  <2>3. CASE \E q \in Requests : Respond(q)
    BY <2>3 DEF Respond
  <2>4. CASE \E q \in Requests : Accept(q)
    BY <2>4 DEF Accept
  <2>5. CASE state' = state
    BY <2>5
  <2>6. Exit \/ Kill \/ (\E q \in Requests : Respond(q) \/ Accept(q)) \/ state' = state
    BY DEF ServerNext, Main, Start, ConnectFails, Connect, LoadKeys, lifeVars, KeysFail, Serve,
           Listen, AcceptFails, Signal, Tick, SelectSignal, SelectError, Drained, DrainTimesOut,
           CloseDB, Lose, Exhausted, serverVars
  <2> QED
    BY <2>1, <2>2, <2>3, <2>4, <2>5, <2>6
<1> QED
  BY <1>1, ServerInvariant, PTL DEF ServerSpec, DrainHonoured

-----------------------------------------------------------------------------
(* How many keys a lost file costs *)

\* The key that the next start-up would load.
Loadable ==
    IF files["public"] # Absent /\ files["private"] \in Keys
    THEN {files["private"]} ELSE {}

\* The keys that have signed or may sign a token, and that no start-up will find
\* again.
Orphans == (issued \cup {k \in {key} : keyStep = "ok"}) \ Loadable

\* A file that the loader has already opened is gone: the key it is about to
\* return will be found by no start-up. Or it has overlooked a pair, and is about
\* to write over the key in it.
Doomed ==
    \/ keyStep = "open" /\ saved = 0 /\ Loadable # {}
    \/ keyStep \in {"open", "write"} /\ saved = 1 /\ files["private"] = Absent
    \/ keyStep = "write" /\ saved = 0 /\ files["private"] = Absent
    \/ keyStep = "write" /\ saved = 1 /\ files["public"] = Absent

\* What the loader has done to the files, and that its key is a fresh one.
LoaderInv ==
    /\ keyStep \in {"open", "write"} => key \notin issued
    /\ keyStep \in {"open", "write"} /\ saved = 1 => Loadable \subseteq {key}
    /\ keyStep \in {"open", "write"} /\ saved = 1 => files["private"] \in {key, Absent}
    /\ keyStep = "write" /\ saved = 0 => Loadable = {}
    /\ keyStep = "write" => files[SaveOrder[saved + 1]] \in {Torn, Absent}
    /\ keyStep = "ok" => files["private"] \in {key, Absent}

\* What may cost a key: the loss of a file, and overlooking a pair.
Mishaps == Len(lost) + overlooked

\* Each orphan, and the one to come, has cost a mishap.
CostInv ==
    /\ IsFiniteSet(drawn)
    /\ Cardinality(Orphans) + (IF Doomed THEN 1 ELSE 0) <= Mishaps

\* A step that costs nothing, and one that costs the key k.
NoOrphan == Orphans' \subseteq Orphans

OneOrphan(k) == Orphans' \subseteq Orphans \cup {k}

\* The loader costs a key only if a file it had opened is gone, or if it writes
\* over a pair that it has overlooked, and counted.
LEMMA LoaderCost ==
    ASSUME KeyTypeOK, KeyInv, LoaderInv, issued \subseteq drawn,
           LoadOrGenerateKeyPair, UNCHANGED <<issued, lost>>
    PROVE  /\ LoaderInv'
           /\ \/ NoOrphan /\ (Doomed' => Doomed) /\ overlooked' = overlooked
              \/ NoOrphan /\ ~Doomed /\ overlooked' = overlooked + 1
              \/ /\ Doomed /\ ~Doomed' /\ overlooked' = overlooked
                 /\ \E k \in Keys : OneOrphan(k)
<1> USE KeysAssumption, TwoFiles DEF KeyTypeOK, KeyInv, LoaderInv, NoOrphan, OneOrphan, Orphans,
            Loadable, Doomed, Files, fileExists
<1>1. CASE \E unseen \in Files \cup {None} : LoadPrivateKey(unseen)
  BY <1>1 DEF LoadPrivateKey
<1>2. CASE \E unseen \in Files \cup {None} : GenerateKey(unseen)
  BY <1>2 DEF GenerateKey
<1>3. CASE OpenFile
  BY <1>3 DEF OpenFile
<1>4. CASE WriteFile
  BY <1>4 DEF WriteFile
<1>5. CASE FileError
  BY <1>5 DEF FileError
<1> QED
  BY <1>1, <1>2, <1>3, <1>4, <1>5 DEF LoadOrGenerateKeyPair

\* The end of the process costs no key.
LEMMA ForgettingCost ==
    ASSUME LoaderInv, NEW s \in {"idle", "check"}, ForgetKey(s), UNCHANGED <<issued, lost>>
    PROVE  LoaderInv' /\ NoOrphan /\ ~Doomed' /\ overlooked' = overlooked
BY DEF LoaderInv, NoOrphan, Orphans, Loadable, Doomed, ForgetKey

\* The loss of a file costs at most the key of the private file.
LEMMA LosingCost ==
    ASSUME KeyTypeOK, KeyInv, LoaderInv, NEW f \in Files, LoseFile(f), UNCHANGED issued
    PROVE  /\ LoaderInv' /\ overlooked' = overlooked
           /\ \/ NoOrphan
              \/ OneOrphan(files["private"]) /\ ~Doomed'
<1> USE KeysAssumption, TwoFiles DEF KeyTypeOK, LoaderInv, LoseFile, Loadable, Files
<1>1. LoaderInv' /\ overlooked' = overlooked
  OBVIOUS
<1>2. CASE keyStep = "write" \/ (keyStep = "open" /\ saved = 1)
  BY <1>2 DEF KeyInv, NoOrphan, Orphans
<1>3. CASE keyStep \notin {"open", "write"} \/ (keyStep = "open" /\ saved # 1)
  BY <1>3 DEF OneOrphan, Orphans, Doomed
<1> QED
  BY <1>1, <1>2, <1>3

\* One element more.
LEMMA OneMore ==
    ASSUME NEW S, IsFiniteSet(S), NEW k, NEW T \in SUBSET (S \cup {k})
    PROVE  Cardinality(T) \in Nat /\ Cardinality(T) <= Cardinality(S) + 1
<1>1. IsFiniteSet(S \cup {k}) /\ Cardinality(S \cup {k}) <= Cardinality(S) + 1
  <2>1. Cardinality(S) \in Nat
    BY FS_CardinalityType
  <2>2. /\ IsFiniteSet(S \cup {k})
        /\ Cardinality(S \cup {k}) = IF k \in S THEN Cardinality(S) ELSE Cardinality(S) + 1
    BY FS_AddElement
  <2> QED
    BY <2>1, <2>2
<1>2. IsFiniteSet(T) /\ Cardinality(T) <= Cardinality(S \cup {k})
  BY <1>1, FS_Subset
<1>3. Cardinality(T) \in Nat /\ Cardinality(S) \in Nat /\ Cardinality(S \cup {k}) \in Nat
  BY <1>1, <1>2, FS_CardinalityType
<1> QED
  BY <1>1, <1>2, <1>3

\* Orphans are keys that were drawn.
LEMMA OrphansFinite ==
    ASSUME ServerInv, IsFiniteSet(drawn)
    PROVE  IsFiniteSet(Orphans) /\ Cardinality(Orphans) \in Nat
<1>1. Orphans \subseteq drawn
  BY DEF ServerInv, ServerTypeOK, KeyInv, Orphans
<1>2. IsFiniteSet(Orphans)
  BY <1>1, FS_Subset
<1> QED
  BY <1>2, FS_CardinalityType

CostsInv == ServerInv /\ LoaderInv /\ CostInv

\* Whatever a step costs is paid by a mishap.
LEMMA CostStep ==
    ASSUME CostsInv, [ServerNext]_serverVars
    PROVE  LoaderInv' /\ CostInv'
<1> DEFINE due  == IF Doomed THEN 1 ELSE 0
           due1 == IF Doomed' THEN 1 ELSE 0
<1>1. /\ ServerInv /\ LoaderInv /\ KeyTypeOK /\ KeyInv /\ issued \subseteq drawn
      /\ IsFiniteSet(drawn) /\ lost \in Seq(Files) /\ overlooked \in Nat
  BY DEF CostsInv, CostInv, ServerInv, ServerTypeOK, KeyTypeOK
<1>2. /\ IsFiniteSet(Orphans) /\ Cardinality(Orphans) \in Nat
      /\ Cardinality(Orphans) + due <= Len(lost) + overlooked
      /\ Len(lost) \in Nat /\ overlooked \in Nat
  BY <1>1, OrphansFinite DEF CostsInv, CostInv, Mishaps
<1>3. ASSUME NoOrphan PROVE Cardinality(Orphans') \in Nat /\ Cardinality(Orphans') <= Cardinality(Orphans)
  BY <1>2, <1>3, FS_Subset, FS_CardinalityType DEF NoOrphan
<1>4. ASSUME NEW k, OneOrphan(k)
      PROVE  Cardinality(Orphans') \in Nat /\ Cardinality(Orphans') <= Cardinality(Orphans) + 1
  BY <1>2, <1>4, OneMore DEF OneOrphan
<1>5. IsFiniteSet(drawn')
  <2>1. drawn' = drawn \/ \E k \in Keys : drawn' = drawn \cup {k}
    BY <1>1, HistoryMoves DEF LoadOrGenerateKeyPair, LoadPrivateKey, GenerateKey, OpenFile, WriteFile,
                              FileError, ForgetKey, LoseFile, keyVars
  <2> QED
    BY <1>1, <2>1, FS_AddElement
<1>6. CASE LoadOrGenerateKeyPair /\ UNCHANGED <<issued, lost>>
  <2>1. /\ LoaderInv'
        /\ \/ NoOrphan /\ (Doomed' => Doomed) /\ overlooked' = overlooked
           \/ NoOrphan /\ ~Doomed /\ overlooked' = overlooked + 1
           \/ /\ Doomed /\ ~Doomed' /\ overlooked' = overlooked
              /\ \E k \in Keys : OneOrphan(k)
    BY <1>1, <1>6, LoaderCost
  <2>2. Cardinality(Orphans') + due1 <= Len(lost') + overlooked'
    BY <1>2, <1>3, <1>4, <1>6, <2>1
  <2> QED
    BY <1>5, <2>1, <2>2 DEF CostInv, Mishaps
<1>7. CASE \E s \in {"idle", "check"} : ForgetKey(s) /\ UNCHANGED <<issued, lost>>
  <2>1. LoaderInv' /\ NoOrphan /\ ~Doomed' /\ overlooked' = overlooked
    BY <1>1, <1>7, ForgettingCost
  <2>2. Cardinality(Orphans') + due1 <= Len(lost') + overlooked'
    BY <1>2, <1>3, <1>7, <2>1
  <2> QED
    BY <1>5, <2>1, <2>2 DEF CostInv, Mishaps
<1>8. CASE \E f \in Files : LoseFile(f) /\ UNCHANGED issued /\ lost' = Append(lost, f)
  <2>1. /\ LoaderInv' /\ overlooked' = overlooked
        /\ NoOrphan \/ (OneOrphan(files["private"]) /\ ~Doomed')
    BY <1>1, <1>8, LosingCost
  <2>2. Len(lost') = Len(lost) + 1
    BY <1>1, <1>8
  <2>3. Cardinality(Orphans') + due1 <= Len(lost') + overlooked'
    BY <1>2, <1>3, <1>4, <2>1, <2>2
  <2> QED
    BY <1>5, <2>1, <2>3 DEF CostInv, Mishaps
<1>9. CASE \/ keyStep = "ok" /\ issued' = issued \cup {key} /\ UNCHANGED <<keyVars, lost>>
           \/ UNCHANGED <<keyVars, issued, lost>>
  <2>1. LoaderInv' /\ NoOrphan /\ (Doomed' => Doomed) /\ overlooked' = overlooked
    BY <1>1, <1>9 DEF keyVars, LoaderInv, NoOrphan, Orphans, Loadable, Doomed
  <2>2. Cardinality(Orphans') + due1 <= Len(lost') + overlooked'
    BY <1>2, <1>3, <1>9, <2>1
  <2> QED
    BY <1>5, <2>1, <2>2 DEF CostInv, Mishaps
<1> QED
  BY <1>1, <1>6, <1>7, <1>8, <1>9, HistoryMoves

\* The account of keys and lost files is kept by every step.
LEMMA CostsInvariant == ServerSpec => []CostsInv
<1>1. ServerInit => CostsInv
  <2> SUFFICES ASSUME ServerInit PROVE CostsInv
    OBVIOUS
  <2>1. Orphans = {} /\ ~Doomed /\ LoaderInv /\ lost = <<>> /\ drawn = {} /\ overlooked = 0
    BY DEF ServerInit, KeyInit, Orphans, Doomed, LoaderInv
  <2> QED
    BY <2>1, InitInv, FS_EmptySet DEF CostsInv, CostInv, Mishaps
<1>2. CostsInv /\ [ServerNext]_serverVars => CostsInv'
  BY CostStep, KeysStep, TypeStep, PhaseStep, LeftStep DEF CostsInv, ServerInv
<1> QED
  BY <1>1, <1>2, PTL DEF ServerSpec

\* KeysOutliveRestarts: of the keys that have signed tokens, the published set
\* lacks at most one for each key file ever lost and for each os.Stat that failed
\* on a pair that was there; restarts and crashes at any point of the start-up
\* cost none (keys.go).
THEOREM LossesBoundOrphanedKeys == ServerSpec => []KeysOutliveRestarts
<1>1. ASSUME CostsInv PROVE KeysOutliveRestarts
  <2> SUFFICES ASSUME listener = "open"
               PROVE  Cardinality(issued \ {key}) <= Mishaps
    BY DEF KeysOutliveRestarts, BuildJWKSet, Mishaps
  <2>1. ServerInv /\ LoaderInv /\ keyStep = "ok"
    BY <1>1 DEF CostsInv, ServerInv, ServerTypeOK, PhaseInv
  <2>2. issued \ {key} \subseteq Orphans
    BY <2>1, KeysAssumption DEF LoaderInv, Orphans, Loadable, Files
  <2>3. IsFiniteSet(Orphans) /\ Cardinality(Orphans) \in Nat
    BY <1>1, OrphansFinite DEF CostsInv, CostInv
  <2>4. Cardinality(issued \ {key}) \in Nat /\ Cardinality(issued \ {key}) <= Cardinality(Orphans)
    BY <2>2, <2>3, FS_Subset, FS_CardinalityType
  <2>5. Cardinality(Orphans) <= Mishaps /\ Mishaps \in Nat
    BY <1>1, <2>3 DEF CostsInv, CostInv, ServerInv, ServerTypeOK, KeyTypeOK, Mishaps
  <2> QED
    BY <2>3, <2>4, <2>5
<1> QED
  BY <1>1, CostsInvariant, PTL

=============================================================================
