----------------------------- MODULE ServerProofs -----------------------------
(***************************************************************************)
(* The start-up of a process and its warrant canary, for every set of      *)
(* canaries, every file-system clock and any number of starts.             *)
(*                                                                         *)
(* Adopting says what a start knows of the database at each of its steps;  *)
(* Recorded, what the file and the cache have to do with the contents the  *)
(* file has been given; Answered, what a request has seen of it.           *)
(***************************************************************************)
EXTENDS Server, TLAPS

-----------------------------------------------------------------------------
(* The inductive invariant *)

\* What each ledger says of the table, and each step of a start of the ledger.
Adopting ==
    /\ database.ledger = "0001" => database.secret = "exact"
    /\ database.ledger = "empty" => database.secret = "none"
    /\ phase = "adopt" => database.secret = "exact"
    /\ phase = "setup" => database.secret = "none" \/ database.ledger = "0001"
    /\ phase = "pending" => database.ledger # "none"
    /\ phase = "up" => database.ledger = "0001"
    /\ phase = "refused" => database.secret = "other"

\* Whether the file has been modified after time t, or will have been when
\* there is one again.
NewerThan(t) == t < now /\ (file # NoFile => t < file.modified)

\* The file has been given its content at its modification time, and the cache
\* holds what it may have been read with under its metadata, or its metadata
\* will never be the file's again.
Recorded ==
    /\ now <= MaxTime
    /\ file # NoFile => /\ file.modified <= now
                        /\ file.content \in written[file.modified]
    /\ canary_cache # None =>
          LET m == canary_cache.metadata.modified
          IN  \/ m <= now /\ canary_cache.value \in written[m]
              \/ NewerThan(m)

Current == IF file = NoFile THEN NoFile ELSE file.content

\* A request that goes on to read has seen metadata no newer than the file's,
\* and the content it will find is among those held since.
Answered ==
    /\ looked_up # None \/ served # None => phase = "up"
    /\ looked_up # None =>
          /\ Current \in held
          /\ looked_up.modified <= now
          /\ file # NoFile => looked_up.modified <= file.modified

ServerInv == TypeOK /\ Adopting /\ Recorded /\ Answered /\ InfoFollowsFile

-----------------------------------------------------------------------------
(* The schema *)

\* A step of a start finds of the ledger and the table what the last one left,
\* or what it left when the start was cut off.
LEMMA AdoptingHolds ==
    ASSUME TypeOK, Adopting, [Next]_vars
    PROVE  phase' \in Phase /\ database' \in Schema /\ Adopting'
<1>1. phase \in Phase /\ database \in Schema
  BY DEF TypeOK
<1>2. CASE Start
  BY <1>1, <1>2 DEF Start, Adopting, Phase, Schema
<1>3. CASE Probe
  BY <1>1, <1>3 DEF Probe, Adopting, Phase, Schema
<1>4. CASE Adopt
  BY <1>1, <1>4 DEF Adopt, Adopting, Phase, Schema
<1>5. CASE SetupLedger
  BY <1>1, <1>5 DEF SetupLedger, Adopting, Phase, Schema
<1>6. CASE RunPending
  BY <1>1, <1>6 DEF RunPending, Adopting, Phase, Schema
<1>7. CASE Stop
  BY <1>1, <1>7 DEF Stop, Adopting, Phase, Schema
<1>8. CASE UNCHANGED <<phase, database>>
  BY <1>1, <1>8 DEF Adopting
<1> QED
  BY <1>2, <1>3, <1>4, <1>5, <1>6, <1>7, <1>8
     DEF Next, Initialize, Migrate, Info, vars

-----------------------------------------------------------------------------
(* The file and the cache *)

\* What a file shows is a canary, or the value of the start-up, which a server
\* that serves has.
LEMMA ShownType ==
    ASSUME TypeOK, phase = "up", NEW c \in Content \cup {NoFile}
    PROVE  Shown(c) \in Canaries
<1>1. canary \in Canaries
  BY DEF TypeOK, CanaryTypes
<1>2. CASE c \in Canaries
  BY <1>2, CanaryNamesAssumption DEF Shown, Canaries, Content
<1>3. CASE c = "removed"
  BY <1>3, CanaryNamesAssumption DEF Shown, Canaries, Content
<1>4. CASE c \in {"garbled", NoFile}
  BY <1>1, <1>4, CanaryNamesAssumption DEF Shown, Canaries, Content
<1> QED BY <1>2, <1>3, <1>4 DEF Content

\* The metadata of a file.
LEMMA MetadataType ==
    ASSUME TypeOK, file # NoFile
    PROVE  /\ file \in File /\ metadata \in Metadata
           /\ metadata.modified = file.modified
           /\ metadata.modified \in Nat
BY DEF TypeOK, CanaryTypes, File, metadata, Metadata

\* A start takes the canary of the environment or of the file, and leaves the
\* file alone; nothing has been served or looked up yet.
LEMMA StartKeeps ==
    ASSUME ServerInv, Start
    PROVE  ServerInv'
<1>1. phase' \in Phase /\ database' \in Schema /\ Adopting'
  BY AdoptingHolds DEF ServerInv, Next
<1>2. /\ phase \in {"down", "refused"} /\ phase' = "init"
      /\ UNCHANGED <<fileVars, infoVars>>
      /\ followed' = (InWorkingDir \/ (file # NoFile /\ file.clean))
  BY DEF Start, LoadCanary
<1>3. canary' \in Canaries /\ canary' # None
  BY NoneAssumption DEF Start, LoadCanary, FromFile
<1>4. TypeOK /\ Recorded /\ Answered
  BY DEF ServerInv
<1>5. followed' \in BOOLEAN
  <2>1. file # NoFile => file.clean \in BOOLEAN
    BY <1>4, MetadataType DEF File
  <2> QED BY <1>2, <2>1, CanaryAssumption
<1>6. TypeOK'
  BY <1>1, <1>2, <1>3, <1>4, <1>5
     DEF TypeOK, CanaryTypes, fileVars, infoVars
<1>7. Recorded'
  BY <1>2, <1>4 DEF Recorded, NewerThan, fileVars, infoVars
<1>8. looked_up' = None /\ served' = None
  BY <1>2, <1>4 DEF Answered, infoVars
<1> QED BY <1>1, <1>6, <1>7, <1>8 DEF ServerInv, Answered, InfoFollowsFile

\* The steps of a start leave the canary alone.
LEMMA InitializeKeeps ==
    ASSUME ServerInv, Initialize
    PROVE  ServerInv'
<1>1. phase' \in Phase /\ database' \in Schema /\ Adopting'
  BY AdoptingHolds DEF ServerInv, Next
<1>2. UNCHANGED <<fileVars, stateVars, infoVars>>
  BY DEF Initialize, canaryVars
<1>3. phase \in {"init", "adopt", "setup", "pending"}
  BY DEF Initialize, Migrate, Probe, Adopt, SetupLedger, RunPending
<1>4. TypeOK /\ Recorded /\ Answered
  BY DEF ServerInv
<1>5. TypeOK'
  BY <1>1, <1>2, <1>3, <1>4
     DEF TypeOK, CanaryTypes, fileVars, stateVars, infoVars
<1>6. Recorded'
  BY <1>2, <1>4 DEF Recorded, NewerThan, fileVars, infoVars
<1>7. looked_up' = None /\ served' = None
  BY <1>2, <1>3, <1>4 DEF Answered, infoVars
<1> QED BY <1>1, <1>5, <1>6, <1>7 DEF ServerInv, Answered, InfoFollowsFile

\* A stop forgets what the process has cached and served.
LEMMA StopKeeps ==
    ASSUME ServerInv, Stop
    PROVE  ServerInv'
<1>1. phase' \in Phase /\ database' \in Schema /\ Adopting'
  BY AdoptingHolds DEF ServerInv, Next
<1>2. /\ UNCHANGED <<fileVars, stateVars>> /\ phase' = "down"
      /\ canary_cache' = None /\ looked_up' = None /\ served' = None
      /\ held' = {}
  BY DEF Stop, ForgetCanary
<1>3. TypeOK /\ Recorded
  BY DEF ServerInv
<1>4. TypeOK'
  BY <1>1, <1>2, <1>3 DEF TypeOK, CanaryTypes, fileVars, stateVars
<1>5. Recorded'
  BY <1>2, <1>3 DEF Recorded, fileVars
<1> QED BY <1>1, <1>2, <1>4, <1>5 DEF ServerInv, Answered, InfoFollowsFile

-----------------------------------------------------------------------------
(* GET /info *)

\* The canary of the environment is served without a look at the file.
LEMMA InfoFromEnvKeeps ==
    ASSUME ServerInv, Info, InfoFromEnv
    PROVE  ServerInv'
<1>1. phase' \in Phase /\ database' \in Schema /\ Adopting'
  BY AdoptingHolds DEF ServerInv, Next
<1>2. /\ UNCHANGED <<phase, database, fileVars, stateVars>>
      /\ UNCHANGED <<canary_cache, looked_up, held>>
      /\ phase = "up" /\ canary_from_env /\ served' = canary
  BY DEF Info, InfoFromEnv
<1>3. TypeOK /\ Recorded /\ Answered
  BY DEF ServerInv
<1>4. TypeOK'
  <2>1. served' \in Canaries
    BY <1>2, <1>3 DEF TypeOK, CanaryTypes
  <2> QED
    BY <1>1, <1>2, <1>3, <2>1 DEF TypeOK, CanaryTypes, fileVars, stateVars
<1>5. Recorded'
  BY <1>2, <1>3 DEF Recorded, NewerThan, fileVars
<1>6. Answered'
  BY <1>2, <1>3 DEF Answered, Current, fileVars
<1>7. InfoFollowsFile'
  BY <1>2 DEF InfoFollowsFile, fileVars
<1> QED BY <1>1, <1>4, <1>5, <1>6, <1>7 DEF ServerInv

\* A request that finds its file cached serves what the file may have been read
\* with when it had this metadata, and one that finds no file says so.
LEMMA LookUpKeeps ==
    ASSUME ServerInv, Info, LookUp
    PROVE  ServerInv'
<1>1. phase' \in Phase /\ database' \in Schema /\ Adopting'
  BY AdoptingHolds DEF ServerInv, Next
<1>2. /\ UNCHANGED <<phase, database, fileVars, stateVars, canary_cache>>
      /\ phase = "up"
      /\ held' = IF file = NoFile THEN {NoFile} ELSE Alike
  BY DEF Info, LookUp
<1>3. TypeOK /\ Recorded /\ Answered
  BY DEF ServerInv
<1>4. file # NoFile => /\ file.content \in Alike /\ Alike \subseteq Content
                       /\ file.modified \in Nat /\ file.modified <= now
  BY <1>3, MetadataType, CanaryAssumption
     DEF Recorded, Alike, TypeOK, CanaryTypes
<1>5. Recorded'
  BY <1>2, <1>3 DEF Recorded, NewerThan, fileVars
<1>6. CASE Serve(NoFile) /\ (file = NoFile \/ ~followed)
  <2>1. served' \in Canaries /\ looked_up' = None
    BY <1>2, <1>3, <1>6, ShownType DEF Serve
  <2>2. TypeOK'
    BY <1>1, <1>2, <1>3, <1>4, <2>1
       DEF TypeOK, CanaryTypes, fileVars, stateVars
  <2>3. InfoFollowsFile'
    BY <1>2, <1>6 DEF InfoFollowsFile, Serve, Shown, fileVars, stateVars
  <2> QED BY <1>1, <1>2, <1>5, <2>1, <2>2, <2>3 DEF ServerInv, Answered
<1>7. CASE file # NoFile /\ Cached /\ Serve(canary_cache.value)
  <2>1. canary_cache \in Cache /\ canary_cache.metadata.modified = file.modified
    BY <1>3, <1>7, MetadataType DEF Cached, TypeOK, CanaryTypes
  <2>2. canary_cache.value \in Alike
    BY <1>3, <1>4, <1>7, <2>1 DEF Recorded, NewerThan, Alike, Cached
  <2>3. served' \in Canaries /\ looked_up' = None
    BY <1>2, <1>3, <1>4, <1>7, <2>2, ShownType DEF Serve
  <2>4. TypeOK'
    BY <1>1, <1>2, <1>3, <1>4, <2>3
       DEF TypeOK, CanaryTypes, fileVars, stateVars
  <2>5. InfoFollowsFile'
    BY <1>2, <1>7, <2>2
       DEF InfoFollowsFile, Serve, Shown, fileVars, stateVars
  <2> QED BY <1>1, <1>2, <1>5, <2>3, <2>4, <2>5 DEF ServerInv, Answered
<1>8. CASE file # NoFile /\ looked_up' = metadata /\ served' = None
  <2>1. metadata \in Metadata /\ metadata.modified = file.modified
    BY <1>3, <1>8, MetadataType
  <2>2. TypeOK'
    BY <1>1, <1>2, <1>3, <1>4, <1>8, <2>1
       DEF TypeOK, CanaryTypes, fileVars, stateVars
  <2>3. Answered'
    BY <1>2, <1>4, <1>8, <2>1 DEF Answered, Current, fileVars
  <2>4. InfoFollowsFile'
    BY <1>8 DEF InfoFollowsFile
  <2> QED BY <1>1, <1>5, <2>2, <2>3, <2>4 DEF ServerInv
<1> QED BY <1>6, <1>7, <1>8 DEF LookUp

\* A request serves what it reads.  It caches it under the metadata it has seen
\* before, which are the file's still, or of an earlier time than the file.
LEMMA ReadKeeps ==
    ASSUME ServerInv, Info, Read
    PROVE  ServerInv'
<1>1. phase' \in Phase /\ database' \in Schema /\ Adopting'
  BY AdoptingHolds DEF ServerInv, Next
<1>2. /\ UNCHANGED <<phase, database, fileVars, stateVars, held>>
      /\ looked_up # None /\ phase = "up"
      /\ Serve(Current)
      /\ canary_cache' = IF Current \in Canaries \cup {"removed"}
                         THEN [metadata |-> looked_up, value |-> Current]
                         ELSE canary_cache
  BY DEF Info, Read, Current
<1>3. TypeOK /\ Recorded /\ Answered
  BY DEF ServerInv
<1>4. Current \in Content \cup {NoFile} /\ Current \in held
  BY <1>2, <1>3, MetadataType DEF Answered, Current, File
<1>5. served' \in Canaries /\ looked_up' = None
  BY <1>2, <1>3, <1>4, ShownType DEF Serve
<1>6. looked_up \in Metadata /\ looked_up.modified \in Nat
  BY <1>2, <1>3 DEF TypeOK, CanaryTypes, Metadata
<1>7. canary_cache' \in Cache \cup {None}
  BY <1>2, <1>3, <1>6 DEF TypeOK, CanaryTypes, Cache
<1>8. TypeOK'
  BY <1>1, <1>2, <1>3, <1>5, <1>7 DEF TypeOK, CanaryTypes, fileVars, stateVars
<1>9. Recorded'
  <2>1. CASE Current \in Canaries \cup {"removed"}
    <3>1. file # NoFile /\ Current = file.content
      BY <2>1, CanaryNamesAssumption DEF Current, Content
    <3>2. /\ canary_cache' # None
          /\ canary_cache'.metadata.modified = looked_up.modified
          /\ canary_cache'.value = Current
      BY <1>2, <1>6, <2>1, NoneAssumption DEF Cache
    <3>3. \/ looked_up.modified = file.modified
          \/ looked_up.modified < file.modified /\ looked_up.modified < now
      BY <1>2, <1>3, <1>6, <3>1, MetadataType
         DEF Answered, Recorded, TypeOK, CanaryTypes
    <3> QED
      BY <1>2, <1>3, <3>1, <3>2, <3>3 DEF Recorded, NewerThan, fileVars
  <2>2. CASE Current \notin Canaries \cup {"removed"}
    BY <1>2, <1>3, <2>2 DEF Recorded, NewerThan, fileVars
  <2> QED BY <2>1, <2>2
<1>10. InfoFollowsFile'
  BY <1>2, <1>4 DEF InfoFollowsFile, Serve, Shown, fileVars, stateVars
<1> QED BY <1>1, <1>2, <1>5, <1>8, <1>9, <1>10 DEF ServerInv, Answered

-----------------------------------------------------------------------------
(* The operator *)

\* A request that goes on to read finds the content among those held.
LEMMA WriteFileKeeps ==
    ASSUME ServerInv, UNCHANGED <<phase, database>>,
           NEW content \in Content, NEW clean \in BOOLEAN,
           WriteFile(content, clean)
    PROVE  ServerInv'
<1>1. Adopting'
  BY DEF ServerInv, Adopting
<1>2. /\ UNCHANGED <<now, canary_from_env, stateVars>>
      /\ UNCHANGED <<canary_cache, looked_up, served>>
      /\ file' = [content |-> content, clean |-> clean, modified |-> now]
      /\ written' = [written EXCEPT ![now] = @ \cup {content}]
      /\ held' = IF looked_up # None THEN held \cup {content} ELSE held
  BY DEF WriteFile, Holds
<1>3. TypeOK /\ Recorded /\ Answered /\ InfoFollowsFile /\ now \in 0..MaxTime
  BY CanaryAssumption DEF ServerInv, Recorded, TypeOK, CanaryTypes
<1>4. /\ file' \in File /\ file' # NoFile
      /\ file'.modified = now /\ file'.content = content
  BY <1>2, <1>3, NoneAssumption DEF File
<1>5. /\ written' \in [0..MaxTime -> SUBSET Content]
      /\ content \in written'[now]
      /\ \A t \in 0..MaxTime : written[t] \subseteq written'[t]
  BY <1>2, <1>3 DEF TypeOK, CanaryTypes
<1>6. TypeOK'
  BY <1>2, <1>3, <1>4, <1>5 DEF TypeOK, CanaryTypes, stateVars
<1>7. Recorded'
  <2>1. canary_cache # None => canary_cache.metadata.modified \in Nat
    BY <1>3 DEF TypeOK, CanaryTypes, Cache, Metadata
  <2> QED
    BY <1>2, <1>3, <1>4, <1>5, <2>1, CanaryAssumption DEF Recorded, NewerThan
<1>8. Answered'
  BY <1>2, <1>3, <1>4 DEF Answered, Current
<1>9. InfoFollowsFile'
  BY <1>2, <1>3 DEF InfoFollowsFile, Shown, stateVars
<1> QED BY <1>1, <1>6, <1>7, <1>8, <1>9 DEF ServerInv

\* So it does, if it finds no file.
LEMMA RemoveFileKeeps ==
    ASSUME ServerInv, UNCHANGED <<phase, database>>, RemoveFile
    PROVE  ServerInv'
<1>1. Adopting'
  BY DEF ServerInv, Adopting
<1>2. /\ UNCHANGED <<now, canary_from_env, written, stateVars>>
      /\ UNCHANGED <<canary_cache, looked_up, served>>
      /\ file # NoFile /\ file' = NoFile
      /\ held' = IF looked_up # None THEN held \cup {NoFile} ELSE held
  BY DEF RemoveFile, Holds
<1>3. TypeOK /\ Recorded /\ Answered /\ InfoFollowsFile
  BY DEF ServerInv
<1>4. TypeOK'
  BY <1>2, <1>3 DEF TypeOK, CanaryTypes, stateVars
<1>5. Recorded'
  BY <1>2, <1>3 DEF Recorded, NewerThan
<1>6. Answered'
  BY <1>2, <1>3 DEF Answered, Current
<1>7. InfoFollowsFile'
  BY <1>2, <1>3 DEF InfoFollowsFile, Shown, stateVars
<1> QED BY <1>1, <1>4, <1>5, <1>6, <1>7 DEF ServerInv

\* Time only makes what is cached older.
LEMMA FileTickKeeps ==
    ASSUME ServerInv, UNCHANGED <<phase, database>>, FileTick
    PROVE  ServerInv'
<1>1. Adopting'
  BY DEF ServerInv, Adopting
<1>2. /\ now < MaxTime /\ now' = now + 1
      /\ UNCHANGED <<file, written, canary_from_env, stateVars, infoVars>>
  BY DEF FileTick
<1>3. TypeOK /\ Recorded /\ Answered /\ InfoFollowsFile /\ now \in Nat
  BY DEF ServerInv, TypeOK, CanaryTypes
<1>4. TypeOK'
  BY <1>2, <1>3 DEF TypeOK, CanaryTypes, stateVars, infoVars
<1>5. Recorded'
  <2>1. canary_cache # None => canary_cache.metadata.modified \in Nat
    BY <1>3 DEF TypeOK, CanaryTypes, Cache, Metadata
  <2>2. file # NoFile => file.modified \in Nat
    BY <1>3, MetadataType DEF File
  <2> QED
    BY <1>2, <1>3, <2>1, <2>2, CanaryAssumption
       DEF Recorded, NewerThan, infoVars
<1>6. Answered'
  <2>1. looked_up # None => looked_up.modified \in Nat
    BY <1>3 DEF TypeOK, CanaryTypes, Metadata
  <2> QED BY <1>2, <1>3, <2>1 DEF Answered, Current, infoVars
<1>7. InfoFollowsFile'
  BY <1>2, <1>3 DEF InfoFollowsFile, Shown, stateVars, infoVars
<1> QED BY <1>1, <1>4, <1>5, <1>6, <1>7 DEF ServerInv

-----------------------------------------------------------------------------
(* The theorems *)

\* A server that has never been started has read nothing.
LEMMA ServerInit == Init => ServerInv
<1> SUFFICES ASSUME Init
             PROVE  ServerInv
  OBVIOUS
<1>1. /\ phase = "down" /\ database \in Unadopted
      /\ now = 0 /\ canary_from_env \in BOOLEAN /\ followed = FALSE
      /\ canary = None /\ canary_cache = None /\ looked_up = None
      /\ served = None /\ held = {}
  BY DEF Init, CanaryInit
<1>2. PICK c \in Content :
         /\ file = [content |-> c, clean |-> c # "garbled", modified |-> 0]
         /\ written = [t \in 0..MaxTime |-> IF t = 0 THEN {c} ELSE {}]
  BY DEF Init, CanaryInit
<1>3. file \in File /\ file.modified = 0 /\ file.content = c
  BY <1>2 DEF File
<1>4. written \in [0..MaxTime -> SUBSET Content] /\ c \in written[0]
  BY <1>2, CanaryAssumption
<1>5. TypeOK
  BY <1>1, <1>3, <1>4
     DEF TypeOK, CanaryTypes, Phase, Unadopted
<1>6. Adopting
  BY <1>1 DEF Adopting, Unadopted
<1>7. Recorded
  <2>1. MaxTime \in Nat
    BY CanaryAssumption
  <2>2. now = 0 /\ file.modified = 0
    BY <1>1, <1>3
  <2>3. now <= MaxTime
    BY <2>1, <2>2
  <2>4. file.modified <= now
    BY <2>2
  <2>5. file.content \in written[file.modified]
    BY <1>3, <1>4
  <2> QED BY <1>1, <2>3, <2>4, <2>5, Zenon DEF Recorded
<1> QED BY <1>1, <1>5, <1>6, <1>7 DEF ServerInv, Answered, InfoFollowsFile

\* No step of the server or of the operator disturbs it.
LEMMA ServerStep == ServerInv /\ [Next]_vars => ServerInv'
<1> SUFFICES ASSUME ServerInv, [Next]_vars
             PROVE  ServerInv'
  OBVIOUS
<1>1. CASE Start
  BY <1>1, StartKeeps
<1>2. CASE Initialize
  BY <1>2, InitializeKeeps
<1>3. CASE Info
  BY <1>3, InfoFromEnvKeeps, LookUpKeeps, ReadKeeps DEF Info, get_info
<1>4. CASE Stop
  BY <1>4, StopKeeps
<1>5. CASE Operator /\ UNCHANGED <<phase, database>>
  BY <1>5, WriteFileKeeps, RemoveFileKeeps, FileTickKeeps DEF Operator
<1>6. CASE UNCHANGED vars
  <2>1. UNCHANGED <<phase, database, now, file, written, canary_from_env>>
    BY <1>6 DEF vars, canaryVars, fileVars
  <2>2. UNCHANGED <<canary, followed, canary_cache, looked_up, served, held>>
    BY <1>6 DEF vars, canaryVars, stateVars, infoVars
  <2>3. TypeOK'
    BY <2>1, <2>2 DEF ServerInv, TypeOK, CanaryTypes
  <2>4. Adopting' /\ Recorded' /\ Answered'
    BY <2>1, <2>2
       DEF ServerInv, Adopting, Recorded, NewerThan, Answered, Current
  <2>5. InfoFollowsFile'
    BY <2>1, <2>2 DEF ServerInv, InfoFollowsFile, Shown
  <2> QED BY <2>3, <2>4, <2>5 DEF ServerInv
<1> QED BY <1>1, <1>2, <1>3, <1>4, <1>5, <1>6 DEF Next

\* The invariant holds of every behaviour.
LEMMA ServerInvariant == Spec => []ServerInv
BY ServerInit, ServerStep, PTL DEF Spec

\* Every variable keeps its type, and a server that has got beyond its
\* configuration has been given a CANARY, which may be empty (env.rs:254-268).
THEOREM ServerTypeCorrect == Spec => []TypeOK
<1>1. ServerInv => TypeOK
  BY DEF ServerInv
<1> QED BY <1>1, ServerInvariant, PTL

\* The ledger says the truth of the table after any number of starts that were
\* cut off, and a server serves only with its table (database.rs:42-90).
THEOREM LedgerTrueCorrect == Spec => []LedgerTrue
<1>1. ServerInv => LedgerTrue
  BY DEF ServerInv, Adopting, LedgerTrue
<1> QED BY <1>1, ServerInvariant, PTL

\* A start refuses only a table that is not the expected one: no crash makes a
\* database that could be adopted one that cannot (database.rs:75-90).
THEOREM RefusesOnlyIncompatibleCorrect == Spec => []RefusesOnlyIncompatible
<1>1. ServerInv => RefusesOnlyIncompatible
  BY DEF ServerInv, Adopting, RefusesOnlyIncompatible
<1> QED BY <1>1, ServerInvariant, PTL

\* /info serves what the file has held at some moment of the request, up to the
\* file system's clock, for every set of canaries (info.rs:11-30).
THEOREM InfoFollowsFileCorrect == Spec => []InfoFollowsFile
<1>1. ServerInv => InfoFollowsFile
  BY DEF ServerInv
<1> QED BY <1>1, ServerInvariant, PTL

=============================================================================
