--------------------------- MODULE CallStackProofs ---------------------------
(***************************************************************************)
(* Whatever the stack's size, the functions and the data: in a program     *)
(* that keeps to its own frame every saved link survives until its ret, the *)
(* saved FPs form a chain, and call and ret implement CallFrames.          *)
(***************************************************************************)
EXTENDS CallStackProps, SequenceTheorems, TLAPS

\* Calls return into the code.
ReturnsIntoCode ==
  /\ ip \in CodeAddrs
  /\ \A i \in 1 .. Len(frames) : frames[i].ret \in CodeAddrs

\* Every frame lies at or below the running one, and they are nested.
Nested ==
  /\ fp =< sp
  /\ \A i \in 1 .. Len(frames) : frames[i].base =< fp
  /\ \A i, j \in 1 .. Len(frames) : i < j => frames[i].base =< frames[j].base

\* SavedLinks is not inductive by itself: a program writes at or above fp, and
\* only Nested says that all links lie below fp, not just the last call's.
IInv ==
  /\ TypeOK
  /\ SavedLinks
  /\ FpChain
  /\ ReturnsIntoCode
  /\ Nested

\* A number stored in a slot unboxed is read back as that number.
LEMMA RawRoundTrip ==
  ASSUME NEW n \in Nat
  PROVE  raw64(n) \in Word /\ asU64(raw64(n)) = n
<1>1. LO \in Int /\ LO > 0
  BY WordsAssumption
<1>2. n \div LO \in Nat /\ n % LO \in Nat
  BY <1>1
<1>3. n = (n \div LO) * LO + (n % LO)
  BY <1>1, Z3
<1> QED
  BY <1>2, <1>3 DEF raw64, asU64, W, Word

\* Code addresses are numbers.
LEMMA CodeNat == CodeAddrs \subseteq Nat
<1>1. LO \in Nat /\ MID \in Nat
  BY WordsAssumption
<1> QED
  BY <1>1, CallStackAssumption

\* What SubSeq does when it drops the last frame.
LEMMA Dropped ==
  ASSUME NEW S, NEW s \in Seq(S), s # <<>>
  PROVE  LET t == SubSeq(s, 1, Len(s) - 1)
         IN /\ t \in Seq(S)
            /\ Len(s) \in Nat /\ Len(s) >= 1
            /\ Len(t) = Len(s) - 1
            /\ \A i \in 1 .. Len(s) - 1 : t[i] = s[i]
<1> DEFINE n == Len(s)
           t == SubSeq(s, 1, n - 1)
<1>1. n \in Nat /\ n # 0
  OBVIOUS
<1>2. \A i \in 1 .. n - 1 : s[i] \in S
  OBVIOUS
<1> HIDE DEF n
<1>3. n - 1 \in Int /\ 1 \in Int
  BY <1>1
<1>4. /\ t \in Seq(S)
      /\ Len(t) = IF 1 =< n - 1 THEN n - 1 - 1 + 1 ELSE 0
      /\ \A i \in 1 .. n - 1 - 1 + 1 : t[i] = s[1 + i - 1]
  BY <1>2, <1>3, SubSeqProperties
<1> HIDE DEF t
<1>5. Len(t) = IF 1 =< n - 1 THEN n - 1 - 1 + 1 ELSE 0
  BY <1>4
<1>6. Len(t) = n - 1
  BY <1>1, <1>5
<1>7. \A i \in 1 .. n - 1 : t[i] = s[i]
  BY <1>1, <1>4
<1>8. n >= 1
  BY <1>1
<1> QED
  BY <1>1, <1>4, <1>6, <1>7, <1>8 DEF n, t

\* A sequence without elements is the empty one.
LEMMA EmptyLen ==
  ASSUME NEW S, NEW s \in Seq(S)
  PROVE  s = <<>> <=> Len(s) = 0
OBVIOUS

\* What Append does.
LEMMA Appended ==
  ASSUME NEW S, NEW s \in Seq(S), NEW e \in S
  PROVE  /\ Append(s, e) \in Seq(S)
         /\ Len(s) \in Nat
         /\ Len(Append(s, e)) = Len(s) + 1
         /\ \A i \in 1 .. Len(s) : Append(s, e)[i] = s[i]
         /\ Append(s, e)[Len(s) + 1] = e
OBVIOUS

\* The frames of a state that satisfies the invariant, one fact per conjunct.
LEMMA FrameFacts ==
  ASSUME IInv
  PROVE  /\ frames \in Seq(Frame)
         /\ Len(frames) \in Nat
         /\ frames = <<>> <=> Len(frames) = 0
         /\ \A i \in 1 .. Len(frames) :
              /\ frames[i] \in Frame
              /\ frames[i].base \in Nat /\ frames[i].ret \in Nat /\ frames[i].link \in Nat
<1>1. frames \in Seq(Frame)
  BY DEF IInv, TypeOK
<1>2. /\ Len(frames) \in Nat
      /\ frames = <<>> <=> Len(frames) = 0
      /\ \A i \in 1 .. Len(frames) : frames[i] \in Frame
  BY <1>1
<1> QED
  BY <1>1, <1>2 DEF Frame

\* A step of the program within its frame: it writes no slot below fp, so no link.
LEMMA LinksKept ==
  ASSUME IInv, OwnFrame, stack' \in [Slots -> Word]
  PROVE  \A i \in 1 .. Len(frames) :
           /\ stack'[frames[i].base - 2] = raw64(frames[i].link)
           /\ stack'[frames[i].base - 1] = raw64(frames[i].ret)
<1> SUFFICES ASSUME NEW i \in 1 .. Len(frames)
             PROVE  /\ stack'[frames[i].base - 2] = raw64(frames[i].link)
                    /\ stack'[frames[i].base - 1] = raw64(frames[i].ret)
  OBVIOUS
<1>1. /\ frames[i].base \in 2 .. STACK_SIZE
      /\ stack[frames[i].base - 2] = raw64(frames[i].link)
      /\ stack[frames[i].base - 1] = raw64(frames[i].ret)
  BY DEF IInv, SavedLinks
<1>2. frames[i].base =< fp /\ fp \in Nat /\ STACK_SIZE \in Nat
  BY CallStackAssumption DEF IInv, Nested, TypeOK
<1>3. /\ frames[i].base - 2 \in Slots /\ ~(frames[i].base - 2 >= fp)
      /\ frames[i].base - 1 \in Slots /\ ~(frames[i].base - 1 >= fp)
  BY <1>1, <1>2 DEF Slots
<1> QED
  BY <1>1, <1>3 DEF OwnFrame

\* Every step but call and ret: the frames and fp stay.
LEMMA LocalStep ==
  ASSUME IInv, OwnFrame,
         reg' \in [Regs -> Word], stack' \in [Slots -> Word], sp' \in Nat,
         ip' \in CodeAddrs, status' \in {"running", "wild"},
         UNCHANGED <<fp, frames>>
  PROVE  IInv'
<1>1. TypeOK'
  BY CodeNat DEF IInv, TypeOK
<1>2. SavedLinks'
  BY LinksKept DEF IInv, SavedLinks
<1>3. FpChain' /\ ReturnsIntoCode'
  BY DEF IInv, FpChain, ReturnsIntoCode
<1>4. Nested'
  BY DEF IInv, Nested, OwnFrame, TypeOK
<1> QED
  BY <1>1, <1>2, <1>3, <1>4 DEF IInv

\* Undefined behaviour ends the story: the state stays as it was.
LEMMA WildStep ==
  ASSUME IInv, Wild
  PROVE  IInv'
BY DEF Wild, IInv, TypeOK, SavedLinks, FpChain, ReturnsIntoCode, Nested

\* A call adds one link above the others.
LEMMA CallStep ==
  ASSUME IInv, OwnFrame, NEW f \in DOMAIN functionTable, Call(f)
  PROVE  IInv'
<1>1. CASE Wild
  BY <1>1, WildStep
<1>2. CASE ~Wild
  <2> DEFINE n   == Len(frames)
             new == [base |-> sp + 2, ret |-> ip, link |-> fp]
  <2>1. /\ sp \in Slots /\ sp + 1 \in Slots
        /\ stack' = [stack EXCEPT ![sp] = raw64(fp), ![sp + 1] = raw64(ip)]
        /\ fp' = sp + 2
        /\ sp' = sp + 2 + functionTable[f].frameSize
        /\ ip' = functionTable[f].entryIP
        /\ frames' = Append(frames, new)
        /\ reg' = reg /\ status' = status
    BY <1>2 DEF Call, Accessing
  <2>2. /\ sp \in Nat /\ fp \in Nat /\ ip \in Nat /\ fp =< sp
        /\ STACK_SIZE \in Nat /\ sp + 2 =< STACK_SIZE
        /\ functionTable[f].frameSize \in Nat /\ functionTable[f].entryIP \in CodeAddrs
    BY <2>1, CallStackAssumption DEF IInv, TypeOK, Nested, Slots
  <2>3. raw64(fp) \in Word /\ raw64(ip) \in Word
    BY <2>2, RawRoundTrip
  <2>4. /\ stack' \in [Slots -> Word]
        /\ stack'[sp] = raw64(fp)
        /\ stack'[sp + 1] = raw64(ip)
    <3>1. stack \in [Slots -> Word] /\ sp # sp + 1
      BY <2>2 DEF IInv, TypeOK
    <3> QED
      BY <2>1, <2>3, <3>1
  <2>5. new \in Frame
    BY <2>2 DEF Frame
  <2>6. /\ frames' \in Seq(Frame)
        /\ n \in Nat
        /\ Len(frames') = n + 1
        /\ \A i \in 1 .. n : frames'[i] = frames[i]
        /\ frames'[n + 1] = new
    <3> HIDE DEF new
    <3> QED
      BY <2>1, <2>5, FrameFacts, Appended
  <2>7. new.base = sp + 2 /\ new.ret = ip /\ new.link = fp
    OBVIOUS
  <2> HIDE DEF new
  <2>8. TypeOK'
    <3>1. fp' \in Nat /\ sp' \in Nat
      <4>1. /\ sp \in Nat /\ functionTable[f].frameSize \in Nat
            /\ fp' = sp + 2 /\ sp' = sp + 2 + functionTable[f].frameSize
        BY <2>1, <2>2
      <4> QED
        BY <4>1
    <3>2. ip' \in Nat
      BY <2>1, <2>2, CodeNat
    <3>3. reg' \in [Regs -> Word] /\ status' \in {"running", "wild"}
      BY <2>1 DEF IInv, TypeOK
    <3> QED
      BY <2>4, <2>6, <3>1, <3>2, <3>3 DEF TypeOK
  <2>9. SavedLinks'
    <3>1. ASSUME NEW i \in 1 .. n
          PROVE  /\ frames'[i].base \in 2 .. STACK_SIZE
                 /\ stack'[frames'[i].base - 2] = raw64(frames'[i].link)
                 /\ stack'[frames'[i].base - 1] = raw64(frames'[i].ret)
      BY <2>4, <2>6, LinksKept DEF IInv, SavedLinks
    <3>2. /\ frames'[n + 1].base \in 2 .. STACK_SIZE
          /\ stack'[frames'[n + 1].base - 2] = raw64(frames'[n + 1].link)
          /\ stack'[frames'[n + 1].base - 1] = raw64(frames'[n + 1].ret)
      <4>1. sp + 2 - 2 = sp /\ sp + 2 - 1 = sp + 1
        BY <2>2
      <4> QED
        BY <2>2, <2>4, <2>6, <2>7, <4>1
    <3>3. \A i \in 1 .. n + 1 : i = n + 1 \/ i \in 1 .. n
      BY <2>6
    <3> QED
      BY <2>6, <3>1, <3>2, <3>3 DEF SavedLinks
  <2>10. FpChain'
    <3>1. fp' = frames'[n + 1].base /\ frames' # <<>>
      BY <2>1, <2>6, <2>7
    <3>2. ASSUME NEW i \in 1 .. n
          PROVE  /\ frames'[i].link = IF i = 1 THEN 0 ELSE frames'[i - 1].base
                 /\ frames'[i].link + 2 =< frames'[i].base
      <4>1. i # 1 => i - 1 \in 1 .. n
        BY <2>6
      <4> QED
        BY <2>6, <4>1 DEF IInv, FpChain
    <3>3. /\ frames'[n + 1].link = IF n + 1 = 1 THEN 0 ELSE frames'[n + 1 - 1].base
          /\ frames'[n + 1].link + 2 =< frames'[n + 1].base
      <4>1. fp = IF n = 0 THEN 0 ELSE frames[n].base
        BY FrameFacts DEF IInv, FpChain
      <4>2. n # 0 => frames'[n] = frames[n]
        BY <2>6
      <4>3. n + 1 - 1 = n /\ (n + 1 = 1 <=> n = 0)
        BY <2>6
      <4>4. frames'[n + 1].link = fp /\ frames'[n + 1].base = sp + 2
        BY <2>6, <2>7
      <4> QED
        BY <2>2, <4>1, <4>2, <4>3, <4>4
    <3>4. \A i \in 1 .. n + 1 : i = n + 1 \/ i \in 1 .. n
      BY <2>6
    <3> QED
      BY <2>6, <3>1, <3>2, <3>3, <3>4 DEF FpChain
  <2>11. ReturnsIntoCode'
    <3>1. ip \in CodeAddrs /\ \A i \in 1 .. n : frames[i].ret \in CodeAddrs
      BY DEF IInv, ReturnsIntoCode
    <3>2. \A i \in 1 .. n + 1 : i = n + 1 \/ i \in 1 .. n
      BY <2>6
    <3> QED
      BY <2>1, <2>2, <2>6, <2>7, <3>1, <3>2 DEF ReturnsIntoCode
  <2>12. Nested'
    <3>1. \A i \in 1 .. n : frames'[i].base \in Nat /\ frames'[i].base =< fp
      BY <2>6, FrameFacts DEF IInv, Nested
    <3>2. frames'[n + 1].base = sp + 2
      BY <2>6, <2>7
    <3>3. \A i \in 1 .. n + 1 : i = n + 1 \/ i \in 1 .. n
      BY <2>6
    <3>4. \A i \in 1 .. n + 1 : frames'[i].base =< fp'
      BY <2>1, <2>2, <3>1, <3>2, <3>3
    <3>5. ASSUME NEW i \in 1 .. n + 1, NEW j \in 1 .. n + 1, i < j
          PROVE  frames'[i].base =< frames'[j].base
      <4>1. i \in 1 .. n
        BY <2>6, <3>5
      <4>2. CASE j = n + 1
        BY <2>2, <3>1, <3>2, <4>1, <4>2
      <4>3. CASE j \in 1 .. n
        BY <2>6, <3>5, <4>1, <4>3 DEF IInv, Nested
      <4> QED
        BY <3>3, <4>2, <4>3
    <3>6. fp' =< sp'
      BY <2>1, <2>2
    <3> QED
      BY <2>6, <3>4, <3>5, <3>6 DEF Nested
  <2> QED
    BY <2>8, <2>9, <2>10, <2>11, <2>12 DEF IInv
<1> QED
  BY <1>1, <1>2

\* A return that finds its links in the stack ends a pending call: without one
\* fp is 0, and the slots below it are outside the stack.
LEMMA RetEndsCall ==
  ASSUME IInv, Ret, ~Wild
  PROVE  LET n == Len(frames)
         IN /\ n \in Nat /\ n >= 1
            /\ fp = frames[n].base
            /\ sp' = frames[n].base - 2
            /\ ip' = frames[n].ret
            /\ fp' = frames[n].link
            /\ frames' = SubSeq(frames, 1, n - 1)
            /\ reg' = reg /\ stack' = stack /\ status' = status
<1> DEFINE n == Len(frames)
<1>1. /\ fp - 1 \in Slots /\ fp - 2 \in Slots
      /\ sp' = fp - 2
      /\ ip' = asU64(stack[fp - 1])
      /\ fp' = asU64(stack[fp - 2])
      /\ frames' = IF frames = <<>> THEN <<>> ELSE SubSeq(frames, 1, n - 1)
      /\ reg' = reg /\ stack' = stack /\ status' = status
  BY DEF Ret, Accessing
<1>2. fp = IF frames = <<>> THEN 0 ELSE frames[n].base
  BY DEF IInv, FpChain
<1>3. n \in Nat /\ (frames = <<>> <=> n = 0)
  BY FrameFacts
<1>4. frames # <<>>
  <2>1. STACK_SIZE \in Nat
    BY CallStackAssumption
  <2> QED
    BY <1>1, <1>2, <2>1 DEF Slots
<1>5. n >= 1 /\ n \in 1 .. Len(frames)
  BY <1>3, <1>4
<1>6. /\ stack[fp - 2] = raw64(frames[n].link)
      /\ stack[fp - 1] = raw64(frames[n].ret)
  BY <1>2, <1>4, <1>5 DEF IInv, SavedLinks
<1>7. frames[n].link \in Nat /\ frames[n].ret \in Nat
  BY <1>5, FrameFacts
<1>8. asU64(stack[fp - 2]) = frames[n].link /\ asU64(stack[fp - 1]) = frames[n].ret
  BY <1>6, <1>7, RawRoundTrip
<1> QED
  BY <1>1, <1>2, <1>3, <1>4, <1>5, <1>8

\* A return drops the last frame and makes its link the running frame.
LEMMA RetStep ==
  ASSUME IInv, OwnFrame, Ret
  PROVE  IInv'
<1>1. CASE Wild
  BY <1>1, WildStep
<1>2. CASE ~Wild
  <2> DEFINE n == Len(frames)
  <2>1. /\ n \in Nat /\ n >= 1
        /\ fp = frames[n].base
        /\ sp' = frames[n].base - 2
        /\ ip' = frames[n].ret
        /\ fp' = frames[n].link
        /\ frames' = SubSeq(frames, 1, n - 1)
        /\ reg' = reg /\ stack' = stack /\ status' = status
    BY <1>2, RetEndsCall
  <2>2. /\ frames' \in Seq(Frame)
        /\ Len(frames') = n - 1
        /\ \A i \in 1 .. n - 1 : frames'[i] = frames[i]
    <3>1. frames \in Seq(Frame) /\ frames # <<>>
      BY <2>1, FrameFacts
    <3> QED
      BY <2>1, <3>1, Dropped
  <2>3. /\ n \in 1 .. Len(frames)
        /\ \A i \in 1 .. n - 1 : i \in 1 .. Len(frames)
    BY <2>1
  <2>4. /\ frames[n].base \in 2 .. STACK_SIZE
        /\ frames[n].base \in Nat /\ frames[n].link \in Nat /\ frames[n].ret \in CodeAddrs
        /\ frames[n].link = IF n = 1 THEN 0 ELSE frames[n - 1].base
    BY <2>3, FrameFacts DEF IInv, SavedLinks, FpChain, ReturnsIntoCode
  <2>5. frames' = <<>> <=> n = 1
    <3>1. frames' = <<>> <=> Len(frames') = 0
      BY <2>2, EmptyLen
    <3>2. n \in Nat /\ Len(frames') = n - 1
      BY <2>1, <2>2
    <3> HIDE DEF n
    <3> QED
      BY <3>1, <3>2
  <2>6. TypeOK'
    <3>1. fp' \in Nat /\ sp' \in Nat /\ ip' \in Nat
      <4>1. STACK_SIZE \in Nat
        BY CallStackAssumption
      <4>2. frames[n].base - 2 \in Nat
        BY <2>4, <4>1
      <4>3. frames[n].ret \in Nat
        BY <2>4, CodeNat
      <4> QED
        BY <2>1, <2>4, <4>2, <4>3
    <3> QED
      BY <2>1, <2>2, <3>1 DEF IInv, TypeOK
  <2>7. SavedLinks'
    BY <2>1, <2>2, <2>3 DEF IInv, SavedLinks
  <2>8. FpChain'
    <3>1. fp' = IF frames' = <<>> THEN 0 ELSE frames'[n - 1].base
      <4>1. CASE n = 1
        BY <2>1, <2>4, <2>5, <4>1
      <4>2. CASE n # 1
        <5>1. n - 1 \in 1 .. n - 1
          <6>1. n \in Nat /\ n >= 1
            BY <2>1
          <6> HIDE DEF n
          <6> QED
            BY <4>2, <6>1
        <5> QED
          BY <2>1, <2>2, <2>4, <2>5, <4>2, <5>1
      <4> QED
        BY <4>1, <4>2
    <3>2. ASSUME NEW i \in 1 .. n - 1
          PROVE  /\ frames'[i].link = IF i = 1 THEN 0 ELSE frames'[i - 1].base
                 /\ frames'[i].link + 2 =< frames'[i].base
      <4>1. i # 1 => i - 1 \in 1 .. n - 1
        BY <2>1
      <4> QED
        BY <2>2, <2>3, <4>1 DEF IInv, FpChain
    <3> QED
      BY <2>2, <3>1, <3>2 DEF FpChain
  <2>9. ReturnsIntoCode'
    BY <2>1, <2>2, <2>3, <2>4 DEF IInv, ReturnsIntoCode
  <2>10. Nested'
    <3>1. fp' =< sp'
      BY DEF OwnFrame
    <3>2. ASSUME NEW i \in 1 .. n - 1
          PROVE  frames'[i].base =< fp'
      <4>1. n - 1 \in 1 .. Len(frames) /\ i \in 1 .. Len(frames) /\ n # 1
        BY <2>1
      <4>2. fp' = frames[n - 1].base
        BY <2>1, <2>4, <4>1
      <4>3. CASE i = n - 1
        <5>1. frames[i].base \in Nat
          BY <4>1, FrameFacts
        <5> QED
          BY <2>2, <4>2, <4>3, <5>1
      <4>4. CASE i < n - 1
        BY <2>2, <4>1, <4>2, <4>4 DEF IInv, Nested
      <4> QED
        BY <2>1, <4>3, <4>4
    <3>3. \A i, j \in 1 .. n - 1 : i < j => frames'[i].base =< frames'[j].base
      BY <2>2, <2>3 DEF IInv, Nested
    <3> QED
      BY <2>2, <3>1, <3>2, <3>3 DEF Nested
  <2> QED
    BY <2>6, <2>7, <2>8, <2>9, <2>10 DEF IInv
<1> QED
  BY <1>1, <1>2

\* A machine that has run nothing satisfies the invariant.
LEMMA IInvInit == Init => IInv
<1> SUFFICES ASSUME Init PROVE IInv
  OBVIOUS
<1>1. /\ reg = [r \in Regs |-> ZERO] /\ stack = [i \in Slots |-> ZERO]
      /\ sp = 0 /\ fp = 0 /\ ip \in CodeAddrs /\ status = "running" /\ frames = <<>>
  BY DEF Init
<1>2. ZERO \in Word
  BY DEF ZERO, W, Word
<1>3. TypeOK
  BY <1>1, <1>2, CodeNat DEF TypeOK
<1> QED
  BY <1>1, <1>3 DEF IInv, SavedLinks, FpChain, ReturnsIntoCode, Nested

\* What a stack slot or a register holds is a word.
LEMMA WordsHeld ==
  ASSUME IInv
  PROVE  /\ reg \in [Regs -> Word] /\ stack \in [Slots -> Word]
         /\ sp \in Nat /\ ip \in CodeAddrs /\ status \in {"running", "wild"}
BY DEF IInv, TypeOK, ReturnsIntoCode

\* Every instruction but call and ret either goes wild or changes nothing but
\* registers, slots, sp and ip.
LEMMA LocalEffect ==
  ASSUME IInv, Next, ~Wild, ~Ret, \A f \in DOMAIN functionTable : ~Call(f)
  PROVE  /\ reg' \in [Regs -> Word] /\ stack' \in [Slots -> Word] /\ sp' \in Nat
         /\ ip' \in CodeAddrs /\ status' \in {"running", "wild"}
         /\ UNCHANGED <<fp, frames>>
<1> DEFINE Goal == /\ reg' \in [Regs -> Word] /\ stack' \in [Slots -> Word] /\ sp' \in Nat
                   /\ ip' \in CodeAddrs /\ status' \in {"running", "wild"}
                   /\ UNCHANGED <<fp, frames>>
<1>1. ASSUME NEW r \in Regs, Push(r)
      PROVE  Goal
  <2>1. /\ stack' = [stack EXCEPT ![sp] = reg[r]] /\ sp' = sp + 1
        /\ UNCHANGED <<reg, fp, ip, frames, status>>
    BY <1>1 DEF Push, Accessing
  <2>2. sp + 1 \in Nat
    BY WordsHeld
  <2>3. stack' \in [Slots -> Word]
    BY <2>1, WordsHeld
  <2> QED
    BY <2>1, <2>2, <2>3, WordsHeld
<1>2. ASSUME NEW r \in Regs, Pop(r)
      PROVE  Goal
  <2>1. /\ sp - 1 \in Slots
        /\ reg' = [reg EXCEPT ![r] = stack[sp - 1]] /\ sp' = sp - 1
        /\ UNCHANGED <<stack, fp, ip, frames, status>>
    BY <1>2 DEF Pop, Accessing
  <2>2. sp - 1 \in Nat
    BY <2>1, CallStackAssumption DEF Slots
  <2>3. stack[sp - 1] \in Word
    BY <2>1, WordsHeld
  <2> QED
    BY <2>1, <2>2, <2>3, WordsHeld
<1>3. ASSUME NEW r \in Regs, NEW p \in Points, InsertIntoStack(p, r)
      PROVE  Goal
  <2>1. /\ stack' = [stack EXCEPT ![p] = reg[r]]
        /\ UNCHANGED <<reg, sp, fp, ip, frames, status>>
    BY <1>3 DEF InsertIntoStack, Accessing
  <2> QED
    BY <2>1, WordsHeld
<1>4. ASSUME NEW r \in Regs, NEW p \in Points, ReadFromStack(p, r)
      PROVE  Goal
  <2>1. /\ p \in Slots
        /\ reg' = [reg EXCEPT ![r] = stack[p]]
        /\ UNCHANGED <<stack, sp, fp, ip, frames, status>>
    BY <1>4 DEF ReadFromStack, Accessing
  <2> QED
    BY <2>1, WordsHeld
<1>5. ASSUME NEW r \in Regs, NEW w \in Data, Load(r, w)
      PROVE  Goal
  BY <1>5, WordsHeld, CallStackAssumption DEF Load
<1>6. ASSUME NEW r \in Regs, NEW s \in Regs, Mov(r, s)
      PROVE  Goal
  BY <1>6, WordsHeld DEF Mov
<1>7. ASSUME NEW a \in CodeAddrs, Goto(a)
      PROVE  Goal
  BY <1>7, WordsHeld DEF Goto
<1> QED
  BY <1>1, <1>2, <1>3, <1>4, <1>5, <1>6, <1>7 DEF Next

\* Every step of a program that keeps to its own frame keeps the invariant.
LEMMA IInvStep ==
  ASSUME IInv, [Next /\ OwnFrame]_stackVars
  PROVE  IInv'
<1>1. CASE UNCHANGED stackVars
  BY <1>1 DEF stackVars, IInv, TypeOK, SavedLinks, FpChain, ReturnsIntoCode, Nested
<1>2. CASE Wild
  BY <1>2, WildStep
<1>3. CASE OwnFrame /\ Ret
  BY <1>3, RetStep
<1>4. ASSUME NEW f \in DOMAIN functionTable, OwnFrame, Call(f)
      PROVE  IInv'
  BY <1>4, CallStep
<1>5. CASE Next /\ OwnFrame /\ ~Wild /\ ~Ret /\ \A f \in DOMAIN functionTable : ~Call(f)
  BY <1>5, LocalEffect, LocalStep
<1> QED
  BY <1>1, <1>2, <1>3, <1>4, <1>5

\* Every reachable state of such a program satisfies the invariant.
THEOREM Invariance == SpecOwn => []IInv
<1>1. IInv /\ [Next /\ OwnFrame]_stackVars => IInv'
  BY IInvStep
<1> QED
  BY <1>1, IInvInit, PTL DEF SpecOwn

\* call's saved FP and IP of every pending call stay in the two slots below its
\* frame until ret takes them from there.
THEOREM LinksSaved == SpecOwn => []SavedLinks
<1>1. IInv => SavedLinks
  BY DEF IInv
<1> QED
  BY <1>1, Invariance, PTL

\* The saved FPs are a descending chain from vm.fp to the main program.
THEOREM FpsChained == SpecOwn => []FpChain
<1>1. IInv => FpChain
  BY DEF IInv
<1> QED
  BY <1>1, Invariance, PTL

\* The call stack's state keeps its type.
THEOREM CallStackTypeOK == SpecOwn => []TypeOK
<1>1. IInv => TypeOK
  BY DEF IInv
<1> QED
  BY <1>1, Invariance, PTL

\* The caller records of CallFrames, one per pending call.
Callers(fs) ==
  [i \in DOMAIN fs |-> [ret |-> fs[i].ret, sp |-> fs[i].base - 2, fp |-> fs[i].link]]

\* No call pending in one is none pending in the other.
LEMMA NoCallers == Callers(<<>>) = <<>>
BY DEF Callers

\* The records of one more frame are one more record.
LEMMA CallersAppend ==
  ASSUME NEW fs \in Seq(Frame), NEW e \in Frame
  PROVE  Callers(Append(fs, e)) =
           Append(Callers(fs), [ret |-> e.ret, sp |-> e.base - 2, fp |-> e.link])
BY DEF Callers

\* The records without the last frame are all but the last record.
LEMMA CallersDropped ==
  ASSUME NEW fs \in Seq(Frame), fs # <<>>
  PROVE  /\ Len(Callers(fs)) = Len(fs)
         /\ Callers(fs) # <<>>
         /\ Callers(SubSeq(fs, 1, Len(fs) - 1)) = SubSeq(Callers(fs), 1, Len(fs) - 1)
BY DEF Callers

\* A machine that has run nothing has no caller.
LEMMA CallerInit == Init => CallerView!Init
<1> SUFFICES ASSUME Init PROVE CallerView!Init
  OBVIOUS
<1>1. Callers(frames) = <<>>
  BY NoCallers DEF Init
<1> QED
  BY <1>1, CodeNat DEF Init, CallerView!Init, Callers

\* A call that finds its slots in the stack is an Enter.
LEMMA CallEnters ==
  ASSUME IInv, NEW f \in DOMAIN functionTable, Call(f), ~Wild
  PROVE  CallerView!Enter
<1> DEFINE new == [base |-> sp + 2, ret |-> ip, link |-> fp]
           size == functionTable[f].frameSize
<1>1. /\ fp' = sp + 2
      /\ sp' = sp + 2 + size
      /\ ip' = functionTable[f].entryIP
      /\ frames' = Append(frames, new)
  BY DEF Call, Accessing
<1>2. /\ sp \in Nat /\ fp \in Nat /\ ip \in Nat /\ frames \in Seq(Frame)
      /\ size \in Nat /\ functionTable[f].entryIP \in CodeAddrs
  BY CallStackAssumption DEF IInv, TypeOK
<1> HIDE DEF size
<1>3. new \in Frame /\ new.ret = ip /\ new.base - 2 = sp /\ new.link = fp
  BY <1>2 DEF Frame
<1> HIDE DEF new
<1>4. Callers(frames') = Append(Callers(frames), [ret |-> ip, sp |-> sp, fp |-> fp])
  BY <1>1, <1>2, <1>3, CallersAppend
<1>5. fp' > sp /\ sp' >= fp' /\ ip' \in Nat
  <2>1. fp' = sp + 2 /\ sp' = sp + 2 + size /\ sp \in Nat /\ size \in Nat
    BY <1>1, <1>2
  <2>2. fp' > sp /\ sp' >= fp'
    BY <2>1
  <2> QED
    BY <1>1, <1>2, <2>2, CodeNat
<1> QED
  BY <1>4, <1>5 DEF CallerView!Enter, Callers

\* A return that finds its links in the stack is the Leave of the last caller.
LEMMA RetLeaves ==
  ASSUME IInv, Ret, ~Wild
  PROVE  CallerView!Leave
<1> DEFINE n == Len(frames)
<1>1. /\ n \in Nat /\ n >= 1
      /\ sp' = frames[n].base - 2
      /\ ip' = frames[n].ret
      /\ fp' = frames[n].link
      /\ frames' = SubSeq(frames, 1, n - 1)
  BY RetEndsCall
<1>2. frames \in Seq(Frame) /\ frames # <<>>
  BY <1>1, FrameFacts
<1>3. /\ Len(Callers(frames)) = n
      /\ Callers(frames) # <<>>
      /\ Callers(frames') = SubSeq(Callers(frames), 1, n - 1)
  BY <1>1, <1>2, CallersDropped
<1>4. Callers(frames)[n] = [ret |-> frames[n].ret, sp |-> frames[n].base - 2,
                            fp |-> frames[n].link]
  BY <1>1, <1>2 DEF Callers
<1> HIDE DEF n
<1>5. LET caller == Callers(frames)[Len(Callers(frames))]
      IN ip' = caller.ret /\ sp' = caller.sp /\ fp' = caller.fp
  BY <1>1, <1>3, <1>4
<1> QED
  BY <1>3, <1>5 DEF CallerView!Leave, Callers

\* Every step of a program that keeps to its own frame is a step of CallFrames
\* or leaves all it shows unchanged.
LEMMA CallerStep ==
  ASSUME IInv, IInv', [Next /\ OwnFrame]_stackVars
  PROVE  [CallerView!Next]_(CallerView!vars)
<1>1. CASE UNCHANGED stackVars
  BY <1>1 DEF stackVars, CallerView!vars
<1>2. CASE Wild
  BY <1>2 DEF Wild, CallerView!vars
<1>3. ASSUME NEW f \in DOMAIN functionTable, Call(f), ~Wild
      PROVE  CallerView!Next
  BY <1>3, CallEnters DEF CallerView!Next
<1>4. CASE Ret /\ ~Wild
  BY <1>4, RetLeaves DEF CallerView!Next
<1>5. CASE Next /\ OwnFrame /\ ~Wild /\ ~Ret /\ \A f \in DOMAIN functionTable : ~Call(f)
  <2>1. UNCHANGED <<fp, frames>>
    BY <1>5, LocalEffect
  <2>2. ip' \in Nat /\ sp' \in Nat /\ sp' >= fp
    BY <1>5, <2>1 DEF OwnFrame, IInv, TypeOK
  <2> QED
    BY <2>1, <2>2 DEF CallerView!Next, CallerView!Local
<1> QED
  BY <1>1, <1>2, <1>3, <1>4, <1>5

\* call and ret on the flat stack implement the activation records of
\* CallFrames: a return resumes its caller with the caller's ip, sp and fp.
THEOREM CallerRefinement == SpecOwn => CallerSpec
<1>1. IInv /\ IInv' /\ [Next /\ OwnFrame]_stackVars => [CallerView!Next]_(CallerView!vars)
  BY CallerStep
<1> QED
  BY <1>1, CallerInit, Invariance, PTL DEF SpecOwn, CallerSpec, CallerView!Spec
==============================================================================
