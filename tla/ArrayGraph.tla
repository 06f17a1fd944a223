------------------------------ MODULE ArrayGraph -----------------------------
(***************************************************************************)
(* What the heap promises a program: arrays that keep what was written to  *)
(* them, referred to from registers, the stack and other arrays.  There    *)
(* are no addresses, chunks or headers.  Now and then arrays nothing leads *)
(* to disappear and the others get new names, everywhere at once: that is  *)
(* all a program can see of a collection.                                  *)
(***************************************************************************)
EXTENDS Integers, Functions

CONSTANTS
  Shapes,      \* index sets of the arrays a program makes
  Zero         \* what a new array holds

VARIABLES
  regs,        \* register -> value
  live,        \* live stack slot -> value
  store,       \* array -> index -> value
  running,
  did          \* the instruction last executed, with the registers it names

vars == <<regs, live, store, running, did>>

ref(id)     == [array |-> id]
isRef(v)    == DOMAIN v = {"array"}
RefsIn(f)   == {v \in Range(f) : isRef(v)}

\* The names K include every array the roots lead to.
Closed(K) ==
  /\ \A v \in RefsIn(regs) \cup RefsIn(live) : v.array \in K
  /\ \A k \in K : \A v \in RefsIn(store[k]) : v.array \in K

\* An instruction without arrays: values travel between registers and stack and
\* may be new, but no reference is made up.
Shuffle ==
  /\ running
  /\ did' = <<"stack">>
  /\ DOMAIN regs' = DOMAIN regs
  /\ RefsIn(regs') \cup RefsIn(live') \subseteq RefsIn(regs) \cup RefsIn(live)
  /\ UNCHANGED <<store, running>>

NewArray ==
  /\ running
  /\ \E r \in DOMAIN regs, shape \in Shapes :
       \E id \in DOMAIN store' \ DOMAIN store :
         /\ did' = <<"arr", r>>
         /\ regs' = [regs EXCEPT ![r] = ref(id)]
         /\ store' = [k \in DOMAIN store \cup {id} |->
                        IF k = id THEN [i \in shape |-> Zero] ELSE store[k]]
  /\ UNCHANGED <<live, running>>

Insert(source, array, i) ==
  /\ running
  /\ did' = <<"arrins", source, array, i>>
  /\ isRef(regs[array])
  /\ i \in DOMAIN store[regs[array].array]
  /\ store' = [store EXCEPT ![regs[array].array][i] = regs[source]]
  /\ UNCHANGED <<regs, live, running>>

Read(target, array, i) ==
  /\ running
  /\ did' = <<"arrread", target, array, i>>
  /\ isRef(regs[array])
  /\ i \in DOMAIN store[regs[array].array]
  /\ regs' = [regs EXCEPT ![target] = store[regs[array].array][i]]
  /\ UNCHANGED <<live, store, running>>

renamed(f, v)     == IF isRef(v) THEN ref(f[v.array]) ELSE v
renamedAll(f, vs) == [x \in DOMAIN vs |-> renamed(f, vs[x])]

\* A collection is under way.
Pause ==
  /\ running
  /\ did' = <<"gc">>
  /\ UNCHANGED <<regs, live, store, running>>

Collect ==
  /\ running
  /\ did' = <<"flip">>
  /\ \E K \in SUBSET DOMAIN store :
       /\ Closed(K)
       /\ \E f \in Bijection(K, DOMAIN store') :
            /\ regs' = renamedAll(f, regs)
            /\ live' = renamedAll(f, live)
            /\ \A k \in K : store'[f[k]] = renamedAll(f, store[k])
  /\ UNCHANGED running

\* The program ends, or the VM gives up for want of memory or on a bad index.
Stop ==
  /\ running
  /\ ~running'
  /\ UNCHANGED <<regs, live>>

Init ==
  /\ RefsIn(regs) = {}
  /\ live = [i \in {} |-> Zero]
  /\ store = [k \in {} |-> Zero]
  /\ running = TRUE
  /\ did = <<>>

Next ==
  \/ Shuffle
  \/ NewArray
  \/ \E r, array \in DOMAIN regs :
       \E i \in UNION Shapes : Insert(r, array, i) \/ Read(r, array, i)
  \/ Pause
  \/ Collect
  \/ Stop

Spec == Init /\ [][Next]_vars
==============================================================================
