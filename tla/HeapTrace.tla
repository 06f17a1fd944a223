------------------------------ MODULE HeapTrace ------------------------------
(***************************************************************************)
(* The heap with a history of the instruction last executed, and what it   *)
(* implements.  The name of a step is what lets ArrayGraph say which word  *)
(* an element read gives, and that a collection changes nothing meanwhile. *)
(***************************************************************************)
EXTENDS HeapProps

VARIABLE did         \* history: the instruction last executed

tracedVars == <<allVars, did>>

TracedInit == HeapInit /\ did = <<>>

TracedNext ==
  \/ StackInstruction /\ did' = <<"stack">>
  \/ \E r \in Regs, n \in Lengths, t \in Types :
       \/ ArrInit(r, n, t) /\ did' = <<"arr", r>>
       \/ StartGC(r, n, t) /\ did' = <<"gc">>
  \/ /\ WalkObject \/ MarkRoots \/ ScanObject \/ SkipObject \/ MoveObject
     /\ did' = did
  \/ UpdatePtrHolder /\ did' = <<"flip">>
  \/ FinishInit /\ did' = <<"arr", gc.want[1]>>
  \/ \E r, array \in Regs : \E i \in UNION {Indices(n) : n \in Lengths} :
       /\ OnArray(array)
       /\ \/ MayStore(r) /\ ArrInsert(r, array, i) /\ did' = <<"arrins", r, array, i>>
          \/ ArrRead(r, array, i) /\ did' = <<"arrread", r, array, i>>
  \/ End /\ did' = <<"end">>

TracedSpec == TracedInit /\ [][TracedNext]_tracedVars

value(w) == IF isPointer(w) THEN [array |-> decodePointer(w)] ELSE w

regsOf(rg)      == [r \in Regs |-> value(rg[r])]
liveOf(st, top) == [i \in {i \in Slots : i < top} |-> value(st[i])]
elements(m, p)  == [i \in Indices(lengthOf(m[p + 16])) |-> value(m[p + ARRAY_OBJ + 8 * i])]
storeOf(A, m)   == [p \in A |-> elements(m, p)]

Graph ==
  INSTANCE ArrayGraph WITH
    Shapes  <- {Indices(n) : n \in Lengths},
    Zero    <- ZERO,
    regs    <- regsOf(reg),
    live    <- liveOf(stack, sp),
    store   <- storeOf(Arrays(active), mem),
    running <- status = "running",
    did     <- did

\* The heap implements the arrays of ArrayGraph: arrread gives what was last
\* written to that element of that array, whatever collections moved it, and a
\* collection changes nothing a program can see until it renames the arrays in
\* use, everywhere at once.
GraphSpec == Graph!Spec
==============================================================================
