-------------------------------- MODULE Canary --------------------------------
(***************************************************************************)
(* The warrant canary of GET /info (handlers/info.rs and env.rs): it comes *)
(* from the process environment, or follows the dotenv file, which the     *)
(* operator may edit, remove and write again at any time.                  *)
(*                                                                         *)
(* A request looks at the file's metadata and, unless the cache was filled *)
(* under the same metadata, reads the file after that; the cache is locked *)
(* for both, so there is one such request at a time.  The modification     *)
(* time of the file has the granularity of the clock unit.                 *)
(***************************************************************************)
EXTENDS Naturals

CONSTANTS
    Values,        \* canaries that are not empty
    SameLength,    \* contents of which the file has the same length
    InWorkingDir,  \* the dotenv file is in the working directory, or above it
    MaxTime,       \* bound of the clock
    NoFile,        \* no dotenv file, or one whose metadata cannot be read
    None           \* Option::None

\* a value of CANARY, which may be empty (CANARY=) though it is set
Canaries == Values \cup {""}

\* the file holds a canary, holds none, or does not parse up to a canary
Content == Canaries \cup {"removed", "garbled"}

ASSUME CanaryAssumption ==
    /\ Values # {}
    /\ SameLength \subseteq Content
    /\ InWorkingDir \in BOOLEAN
    /\ MaxTime \in Nat

\* the names of the contents that hold no canary tell them apart
ASSUME CanaryNamesAssumption ==
    /\ Canaries \cap {"removed", "garbled"} = {}
    /\ NoFile \notin Content

\* a length is as good as another: all that matters is which ones are equal
length(content) == IF content \in SameLength THEN "same" ELSE content

Metadata == [modified : Nat, len : {length(c) : c \in Content}]

File == [content : Content, clean : BOOLEAN, modified : Nat]

Cache == [metadata : Metadata, value : Canaries \cup {"removed"}]

ASSUME NoneAssumption ==
    /\ NoFile \notin File
    /\ None \notin Cache /\ None \notin Metadata /\ None \notin Canaries

VARIABLES
    now,              \* the clock of the file system
    file,             \* the dotenv file; clean: every line of it parses
    followed,         \* whether state.canary_path is the path of that file
    canary,           \* state.canary, the value at start-up; None before one
    canary_from_env,  \* whether the environment has a CANARY
    canary_cache,     \* the last parse and the metadata it was made under
    looked_up,        \* the metadata that a request has seen and goes on to read
    served,           \* the canary of the last answer
    written,          \* written[t]: contents that the file was given at time t
    held              \* contents the file has had since that request looked at it

fileVars == <<now, file, written, canary_from_env>>
stateVars == <<canary, followed>>
infoVars == <<canary_cache, looked_up, served, held>>
canaryVars == <<fileVars, stateVars, infoVars>>

CanaryTypes ==
    /\ now \in Nat
    /\ file \in File \cup {NoFile}
    /\ followed \in BOOLEAN
    /\ canary \in Canaries \cup {None}
    /\ canary_from_env \in BOOLEAN
    /\ canary_cache \in Cache \cup {None}
    /\ looked_up \in Metadata \cup {None}
    /\ served \in Canaries \cup {None}
    /\ written \in [0..MaxTime -> SUBSET Content]
    /\ held \in SUBSET (Content \cup {NoFile})

CanaryInit ==
    /\ now = 0
    /\ canary_from_env \in BOOLEAN
    /\ \E c \in Content :
          /\ file = [content |-> c, clean |-> c # "garbled", modified |-> 0]
          /\ written = [t \in 0..MaxTime |-> IF t = 0 THEN {c} ELSE {}]
    /\ canary = None
    /\ followed = FALSE
    /\ canary_cache = None
    /\ looked_up = None
    /\ served = None
    /\ held = {}

-----------------------------------------------------------------------------
(* Start-up *)

\* the canary that dotenv sets before it gives up at a line that does not parse
FromFile == IF file # NoFile /\ file.content \in Canaries THEN {file.content} ELSE {}

\* mutant: CANARY is not required, as if it were read without expect
LoadCanaryIfAny ==
    /\ canary' \in IF canary_from_env THEN Canaries ELSE
                   IF FromFile = {}   THEN {None}   ELSE FromFile
    /\ followed' = (InWorkingDir \/ (file # NoFile /\ file.clean))
    /\ UNCHANGED fileVars

\* env::var after dotenv: the server does not start without a CANARY, but does
\* with an empty one.  The path is known if dotenv got to the end of the file,
\* and is .env otherwise
LoadCanary ==
    /\ canary' \in IF canary_from_env THEN Canaries ELSE FromFile
    /\ followed' = (InWorkingDir \/ (file # NoFile /\ file.clean))
    /\ UNCHANGED fileVars

\* the cache goes with the process, and so does the request that has its lock
ForgetCanary ==
    /\ canary_cache' = None
    /\ looked_up' = None
    /\ served' = None
    /\ held' = {}

-----------------------------------------------------------------------------
(* GET /info *)

\* what the file shows to clients
Shown(content) ==
    CASE content \in Canaries            -> content
      [] content = "removed"             -> ""
      [] content \in {"garbled", NoFile} -> canary

metadata == [modified |-> file.modified, len |-> length(file.content)]

\* contents that the file may have been read with under this modification time
Alike == written[file.modified]

\* mutant: the modification time is not compared
CachedByLength ==
    canary_cache # None /\ canary_cache.metadata.len = metadata.len

Cached == canary_cache # None /\ canary_cache.metadata = metadata

Serve(content) ==
    /\ served' = Shown(content)
    /\ looked_up' = None

\* the environment is authoritative
InfoFromEnv ==
    /\ canary_from_env
    /\ served' = canary
    /\ UNCHANGED <<fileVars, stateVars, canary_cache, looked_up, held>>

\* fs::metadata, and the cached value if it is the same as then
LookUp ==
    /\ ~canary_from_env
    /\ looked_up = None
    /\ held' = IF file = NoFile THEN {NoFile} ELSE Alike
    /\ \/ /\ file = NoFile \/ ~followed
          /\ Serve(NoFile)
       \/ /\ file # NoFile /\ followed /\ Cached
          /\ Serve(canary_cache.value)
       \/ /\ file # NoFile /\ followed /\ ~Cached
          /\ looked_up' = metadata
          /\ served' = None
    /\ UNCHANGED <<fileVars, stateVars, canary_cache>>

\* the file is read, whatever it is by now; what cannot be read is not cached
Read ==
    LET content == IF file = NoFile THEN NoFile ELSE file.content
    IN  /\ looked_up # None
        /\ Serve(content)
        /\ canary_cache' = IF content \in Canaries \cup {"removed"}
                           THEN [metadata |-> looked_up, value |-> content]
                           ELSE canary_cache
        /\ UNCHANGED <<fileVars, stateVars, held>>

get_info == InfoFromEnv \/ LookUp \/ Read

-----------------------------------------------------------------------------
(* The operator *)

Holds(content) ==
    /\ held' = IF looked_up # None THEN held \cup {content} ELSE held
    /\ UNCHANGED <<now, canary_from_env, stateVars, canary_cache, looked_up, served>>

\* a canary may have lines after it that do not parse
WriteFile(content, clean) ==
    /\ content \in Canaries \/ clean = (content = "removed")
    /\ file' = [content |-> content, clean |-> clean, modified |-> now]
    /\ written' = [written EXCEPT ![now] = @ \cup {content}]
    /\ Holds(content)

RemoveFile ==
    /\ file # NoFile
    /\ file' = NoFile
    /\ UNCHANGED written
    /\ Holds(NoFile)

FileTick ==
    /\ now < MaxTime
    /\ now' = now + 1
    /\ UNCHANGED <<file, written, canary_from_env, stateVars, infoVars>>

Operator ==
    \/ \E content \in Content, clean \in BOOLEAN : WriteFile(content, clean)
    \/ RemoveFile
    \/ FileTick

=============================================================================
