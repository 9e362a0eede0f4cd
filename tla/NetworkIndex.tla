---------------------------- MODULE NetworkIndex ----------------------------
(***************************************************************************)
(* The two files that PlanService keeps beside the database: the cache of  *)
(* the provider's catalogue and the index of networks that is built from   *)
(* it.  A lock file with the builder's process id guards the build; it is  *)
(* read, removed and written in steps of their own.                        *)
(***************************************************************************)
EXTENDS Requests

\* A process id is none of the lock file's other contents.
ASSUME IndexAssumption == Workers \cap {"absent", "empty", "dead"} = {}

VARIABLES
  catalogue, \* catalogue_cache.json
  index,     \* network_index.json: what its catalogue was
  lock,      \* network_index.lock: absent, empty, or the id of a living or dead process
  builder,   \* what the workers do, with the catalogue they have fetched or read
  raced,     \* two builders have been at the lock file at the same time
  spoiled    \* files whose writing failed, or overlapped with another one

caches == <<catalogue, index>>
indexVars == <<caches, lock, builder, raced, spoiled>>

Contents == {"partial", "whole"}
Files == {"absent", "torn"} \cup Contents

AtLock == {"found", "stale", "creating", "signing"}
Building == {"building", "indexing"}
Steps == {"off", "fetching", "saving"} \cup AtLock \cup Building

Off == [at |-> "off", data |-> "absent"]

IndexTypeOK ==
  /\ catalogue \in Files /\ index \in Files
  /\ lock \in {"absent", "empty", "dead"} \cup Workers
  /\ builder \in [Workers -> [at : Steps, data : {"absent"} \cup Contents]]
  /\ raced \in BOOLEAN
  /\ spoiled \in SUBSET {"catalogue", "index"}

IndexInit ==
  /\ catalogue = "absent" /\ index = "absent" /\ lock = "absent"
  /\ builder = [w \in Workers |-> Off]
  /\ raced = FALSE /\ spoiled = {}

Busy(w, step) == builder[w].at = step
Become(w, step) == builder' = [builder EXCEPT ![w].at = step]
Leave(w) == builder' = [builder EXCEPT ![w] = Off]
Others(step) == {v \in Workers : builder[v].at = step}

-----------------------------------------------------------------------------
(* The catalogue                                                           *)

\* All pages, or those before the one that was refused three times.
FetchFullCatalogue(w, pages) ==
  /\ Busy(w, "off")
  /\ builder' = [builder EXCEPT ![w] = [at |-> "fetching", data |-> pages]]
  /\ UNCHANGED <<caches, lock, raced, spoiled>>

\* open(CACHE_FILE, "w") empties the file.
OpenCatalogue(w) ==
  /\ Busy(w, "fetching")
  /\ catalogue' = "torn"
  /\ spoiled' = IF Others("saving") = {} THEN spoiled \ {"catalogue"}
                ELSE spoiled \cup {"catalogue"}
  /\ Become(w, "saving")
  /\ UNCHANGED <<index, lock, raced>>

\* What two writers leave in the file is anything.
SaveCatalogue(w) ==
  /\ Busy(w, "saving")
  /\ catalogue' \in IF "catalogue" \in spoiled THEN {"torn"} \cup Contents ELSE {builder[w].data}
  /\ Leave(w)
  /\ UNCHANGED <<index, lock, raced, spoiled>>

\* An error while writing is logged and the fetched catalogue answered.
SaveFails(w) ==
  /\ Busy(w, "saving")
  /\ spoiled' = spoiled \cup {"catalogue"}
  /\ Leave(w)
  /\ UNCHANGED <<caches, lock, raced>>

-----------------------------------------------------------------------------
(* The lock file                                                           *)

\* A step of w before it builds, while another builder is between two of its own.
Meets(w) == raced' = (raced \/ \E v \in Workers \ {w} : builder[v].at \in AtLock)

StartBuild(w) ==
  /\ Busy(w, "off")
  /\ Become(w, IF lock = "absent" THEN "creating" ELSE "found")
  /\ Meets(w)
  /\ UNCHANGED <<caches, lock, spoiled>>

\* Variant: the process in the lock file is not looked for.
ReadPidOnly(w) ==
  /\ Busy(w, "found")
  /\ IF lock = "absent" THEN Leave(w) ELSE Become(w, "stale")
  /\ Meets(w)
  /\ UNCHANGED <<caches, lock, spoiled>>

\* Refused while the process lives; opening a file that has gone raises.
ReadPid(w) ==
  /\ Busy(w, "found")
  /\ IF lock \in {"empty", "dead"} THEN Become(w, "stale") ELSE Leave(w)
  /\ Meets(w)
  /\ UNCHANGED <<caches, lock, spoiled>>

\* os.remove of whatever is there now.
RemoveLock(w) ==
  /\ Busy(w, "stale")
  /\ lock' = "absent"
  /\ IF lock = "absent" THEN Leave(w) ELSE Become(w, "creating")
  /\ Meets(w)
  /\ UNCHANGED <<caches, spoiled>>

CreateLock(w) ==
  /\ Busy(w, "creating")
  /\ lock' = "empty"
  /\ Become(w, "signing")
  /\ Meets(w)
  /\ UNCHANGED <<caches, spoiled>>

\* The id goes to the file that was opened, which may have been removed since.
WritePid(w) ==
  /\ Busy(w, "signing")
  /\ lock' = IF lock = "absent" THEN lock ELSE w
  /\ Become(w, "building")
  /\ Meets(w)
  /\ UNCHANGED <<caches, spoiled>>

-----------------------------------------------------------------------------
(* The build                                                               *)

\* The end of build_network_index removes the lock file, whoever has written it.
Unlock(w) ==
  /\ lock' = "absent"
  /\ Leave(w)
  /\ raced' = (raced /\ \E v \in Workers \ {w} : builder[v].at \in AtLock \cup Building)

ReadCatalogue(w) ==
  /\ Busy(w, "building") /\ catalogue \in Contents
  /\ index' = "torn"
  /\ spoiled' = IF Others("indexing") = {} THEN spoiled \ {"index"} ELSE spoiled \cup {"index"}
  /\ builder' = [builder EXCEPT ![w] = [at |-> "indexing", data |-> catalogue]]
  /\ UNCHANGED <<catalogue, lock, raced>>

\* Without a readable catalogue, or when anything else raises.
BuildFails(w) ==
  /\ Busy(w, "building")
  /\ Unlock(w)
  /\ UNCHANGED <<caches, spoiled>>

\* Bundles whose details were not found are left out.
WriteIndex(w) ==
  /\ Busy(w, "indexing")
  /\ index' \in IF "index" \in spoiled THEN {"torn"} \cup Contents ELSE {"partial", builder[w].data}
  /\ Unlock(w)
  /\ UNCHANGED <<catalogue, spoiled>>

WriteIndexFails(w) ==
  /\ Busy(w, "indexing")
  /\ spoiled' = spoiled \cup {"index"}
  /\ Unlock(w)
  /\ UNCHANGED caches

\* The process dies; after a restart its id may belong to another process.
BuilderDies(w) ==
  /\ builder[w].at \in AtLock \cup Building
  /\ lock' \in IF lock = w THEN {w, "dead"} ELSE {lock}
  /\ spoiled' = IF Busy(w, "indexing") THEN spoiled \cup {"index"} ELSE spoiled
  /\ Leave(w)
  /\ UNCHANGED <<caches, raced>>

IndexNext ==
  \E w \in Workers :
    \/ \E pages \in Contents : FetchFullCatalogue(w, pages)
    \/ OpenCatalogue(w) \/ SaveCatalogue(w) \/ SaveFails(w)
    \/ StartBuild(w) \/ ReadPid(w) \/ RemoveLock(w) \/ CreateLock(w) \/ WritePid(w)
    \/ ReadCatalogue(w) \/ BuildFails(w) \/ WriteIndex(w) \/ WriteIndexFails(w)
    \/ BuilderDies(w)

IndexSpec == IndexInit /\ [][IndexNext]_indexVars

-----------------------------------------------------------------------------
\* The lock file lets one process build at a time, with locks left behind by processes
\* that died, unless two have been at the file at the same time.
OneBuild ==
  ~raced => \A v, w \in Workers :
              builder[v].at \in Building /\ builder[w].at \in Building => v = w

\* A file that nobody writes can be read, unless its last writing failed or overlapped.
FilesReadable ==
  /\ catalogue = "torn" /\ Others("saving") = {} => "catalogue" \in spoiled
  /\ index = "torn" /\ Others("indexing") = {} => "index" \in spoiled
=============================================================================
