-------------------------------- MODULE Arena --------------------------------
(***************************************************************************)
(* One arena as a state machine: heapAlloc and freeHeap of the VM, or, with *)
(* HEADER = 0, allocateMemory and freeMemory of the compiler.  `objects'   *)
(* is history: where each object given out since the last free lies, in    *)
(* the order of the calls.  malloc is external: it returns a region that   *)
(* is not in use, or null.                                                 *)
(***************************************************************************)
EXTENDS Bump

CONSTANTS
  Regions,     \* addresses malloc(CHUNK_SIZE) can return
  HEADER,      \* bytes in front of an object: sizeof(objHeader), or 0
  Requests     \* sizes callers ask for

ASSUME ArenaAssumption ==
  /\ Regions \subseteq Nat
  /\ \A m, n \in Regions : m < n => m + CHUNK_SIZE =< n
  /\ HEADER \in Nat
  /\ Requests \subseteq Nat

VARIABLES chunks, totalAllocated, status, objects

vars == <<chunks, totalAllocated, status, objects>>

Running == status = "running"
Held    == {chunks[i].mem : i \in DOMAIN chunks}
Total(size) == align(HEADER + size)

\* The object of `total' bytes goes to the last chunk of cs.
Place(cs, total) ==
  /\ chunks' = bumped(cs, total)
  /\ totalAllocated' = totalAllocated + total
  /\ objects' = Append(objects, [addr |-> nextAddr(cs), size |-> total])
  /\ UNCHANGED status

AllocInChunk(size) ==
  /\ Running
  /\ ~noRoom(chunks, Total(size))
  /\ Place(chunks, Total(size))

AllocNewChunk(size) ==
  /\ Running
  /\ noRoom(chunks, Total(size))
  /\ \E m \in Regions \ Held : Place(Append(chunks, newChunk(m)), Total(size))

\* malloc returned null: the exception leaves the arena as it was.
AllocFails(size) ==
  /\ Running
  /\ noRoom(chunks, Total(size))
  /\ status' = "threw"
  /\ UNCHANGED <<chunks, totalAllocated, objects>>

\* Mutant of Free: the chunks go, the byte count stays.
FreeKeepsTotal ==
  /\ Running
  /\ chunks' = <<>>
  /\ objects' = <<>>
  /\ UNCHANGED <<totalAllocated, status>>

Free ==
  /\ Running
  /\ chunks' = <<>>
  /\ totalAllocated' = 0
  /\ objects' = <<>>
  /\ UNCHANGED status

Init ==
  /\ chunks = <<>>
  /\ totalAllocated = 0
  /\ status = "running"
  /\ objects = <<>>

Next ==
  \/ \E size \in Requests :
       \/ AllocInChunk(size)
       \/ AllocNewChunk(size)
       \/ AllocFails(size)
  \/ Free

Spec == Init /\ [][Next]_vars
==============================================================================
