---------------------------- MODULE ResyncProofs ----------------------------
(***************************************************************************)
(* Resync holds for every window function and every limit: cutting by      *)
(* content confines the effect of an edit to the blocks up to the next     *)
(* boundary.                                                               *)
(***************************************************************************)
EXTENDS Resync, SequenceTheorems, TLAPS

LEMMA SmallMod == \A x \in Nat : \A n \in Nat \ {0} : x < n => x % n = x
OBVIOUS

\* A file and its last bytes.
LEMMA FileBytes ==
  ASSUME NEW h \in Heads, NEW t \in Tails
  PROVE  /\ Len(h) \in Nat /\ Len(t) \in Nat
         /\ Len(h \o t) = Len(h) + Len(t)
         /\ Len(h) + Len(t) < UIntRange
         /\ UIntRange \in Nat \ {0}
         /\ \A k \in 1 .. Len(t) : (h \o t)[Len(h) + k] = t[k]
BY ResyncAssumption

\* A boundary of t is a boundary of every file that ends in t.
LEMMA SameBoundary ==
  ASSUME NEW h \in Heads, NEW t \in Tails, NEW k \in 2 .. Len(t) - 1
  PROVE  A!Boundary(h \o t, Len(h) + k) <=> A!Boundary(t, k)
<1>1. /\ Len(h) \in Nat /\ Len(t) \in Nat
      /\ \A j \in 1 .. Len(t) : (h \o t)[Len(h) + j] = t[j]
  BY FileBytes
<1>2. k - 1 \in 1 .. Len(t) /\ k \in 1 .. Len(t) /\ k + 1 \in 1 .. Len(t)
  BY <1>1
<1>3. /\ (h \o t)[Len(h) + (k - 1)] = t[k - 1]
      /\ (h \o t)[Len(h) + k] = t[k]
      /\ (h \o t)[Len(h) + (k + 1)] = t[k + 1]
  BY <1>1, <1>2
<1>4. Len(h) + (k - 1) = (Len(h) + k) - 1 /\ Len(h) + (k + 1) = (Len(h) + k) + 1
  BY <1>1
<1>5. QED
  BY <1>3, <1>4 DEF A!Boundary

\* What one more block adds to Since: nothing, when it starts before offset k.
Added(k, a, c, n) == IF a >= n + k THEN {<<a - n, c - n>>} ELSE {}

LEMMA SinceAppend ==
  ASSUME NEW bs \in Seq(Nat \X Nat), NEW a \in Nat, NEW c \in Nat, NEW k \in Nat, NEW n \in Nat
  PROVE  /\ Append(bs, <<a, c>>) \in Seq(Nat \X Nat)
         /\ Len(Append(bs, <<a, c>>)) = Len(bs) + 1 /\ Len(bs) \in Nat
         /\ \A l \in 1 .. Len(bs) : Append(bs, <<a, c>>)[l] = bs[l]
         /\ Append(bs, <<a, c>>)[Len(bs) + 1] = <<a, c>>
         /\ Since(k, Append(bs, <<a, c>>), n) = Since(k, bs, n) \cup Added(k, a, c, n)
<1> DEFINE t == Append(bs, <<a, c>>)
<1>1. /\ t \in Seq(Nat \X Nat)
      /\ Len(t) = Len(bs) + 1 /\ Len(bs) \in Nat
      /\ \A l \in 1 .. Len(bs) : t[l] = bs[l]
      /\ t[Len(bs) + 1] = <<a, c>>
  OBVIOUS
<1> HIDE DEF t
<1>2. \A l : l \in 1 .. Len(t) <=> (l \in 1 .. Len(bs) \/ l = Len(bs) + 1)
  BY <1>1
<1>3. Since(k, t, n) = Since(k, bs, n) \cup Added(k, a, c, n)
  <2>1. ASSUME NEW x
        PROVE  x \in Since(k, t, n)
                 <=> \E l \in 1 .. Len(t) : t[l][1] >= n + k /\ x = <<t[l][1] - n, t[l][2] - n>>
    BY DEF Since
  <2>2. ASSUME NEW x
        PROVE  x \in Since(k, bs, n)
                 <=> \E l \in 1 .. Len(bs) : bs[l][1] >= n + k /\ x = <<bs[l][1] - n, bs[l][2] - n>>
    BY DEF Since
  <2>3. ASSUME NEW x
        PROVE  x \in Since(k, t, n)
                 <=> (x \in Since(k, bs, n) \/ (a >= n + k /\ x = <<a - n, c - n>>))
    <3>1. <<a, c>>[1] = a /\ <<a, c>>[2] = c
      OBVIOUS
    <3>2. ASSUME x \in Since(k, t, n)
          PROVE  x \in Since(k, bs, n) \/ (a >= n + k /\ x = <<a - n, c - n>>)
      <4>1. PICK l \in 1 .. Len(t) : t[l][1] >= n + k /\ x = <<t[l][1] - n, t[l][2] - n>>
        BY <2>1, <3>2
      <4>2. CASE l \in 1 .. Len(bs)
        BY <1>1, <2>2, <4>1, <4>2
      <4>3. CASE l = Len(bs) + 1
        BY <1>1, <3>1, <4>1, <4>3
      <4>4. QED
        BY <1>2, <4>2, <4>3
    <3>3. ASSUME x \in Since(k, bs, n)
          PROVE  x \in Since(k, t, n)
      <4>1. PICK l \in 1 .. Len(bs) : bs[l][1] >= n + k /\ x = <<bs[l][1] - n, bs[l][2] - n>>
        BY <2>2, <3>3
      <4>2. l \in 1 .. Len(t) /\ t[l] = bs[l]
        BY <1>1, <1>2
      <4>3. QED
        BY <2>1, <4>1, <4>2
    <3>4. ASSUME a >= n + k, x = <<a - n, c - n>>
          PROVE  x \in Since(k, t, n)
      <4>1. Len(bs) + 1 \in 1 .. Len(t) /\ t[Len(bs) + 1][1] = a /\ t[Len(bs) + 1][2] = c
        BY <1>1, <1>2, <3>1
      <4>2. QED
        BY <2>1, <3>4, <4>1
    <3>5. QED
      BY <3>2, <3>3, <3>4
  <2>4. QED
    BY <2>3 DEF Added
<1>4. QED
  BY <1>1, <1>3 DEF t

\* No block starts at or after the offset the loop has come to.
LEMMA SinceNone ==
  ASSUME NEW bs \in Seq(Nat \X Nat), NEW i \in Nat, NEW k \in Int, NEW n \in Nat, i <= n + k,
         \A l \in 1 .. Len(bs) : bs[l][1] < i
  PROVE  Since(k, bs, n) = {}
<1>1. \A l \in 1 .. Len(bs) : bs[l][1] \in Nat
  OBVIOUS
<1>2. QED
  BY <1>1 DEF Since

LEMMA InitInv == Init => Inv
<1> SUFFICES ASSUME Init PROVE Inv
  OBVIOUS
<1>1. p \in Heads /\ q \in Heads /\ s \in Tails
  BY DEF Init
<1>2. Len(p) \in Nat /\ Len(q) \in Nat /\ Len(s) \in Nat
  BY <1>1, FileBytes
<1>3. /\ iA = 2 /\ prevA = 0 /\ blocksA = <<>> /\ pcA = "loop"
      /\ iB = 2 /\ prevB = 0 /\ blocksB = <<>> /\ pcB = "loop"
  BY DEF Init, A!Init, B!Init
<1>4. Started(blocksA, iA, prevA, pcA) /\ Started(blocksB, iB, prevB, pcB)
  BY <1>3 DEF Started
<1>5. Level
  BY <1>2, <1>3 DEF Level, PosA, PosB
<1>6. Resynced
  BY <1>2, <1>3 DEF Resynced, PosA, PosB
<1>7. QED
  BY <1>1, <1>4, <1>5, <1>6 DEF Inv

\* One step of the run on p \o s: a turn of the loop, or the end.
LEMMA RunA ==
  ASSUME Inv, A!Next, UNCHANGED p, UNCHANGED s
  PROVE  /\ pcA = "loop"
         /\ \/ /\ PosA < Len(s) /\ iA' = iA + 1 /\ pcA' = "loop"
               /\ \/ /\ ~A!Boundary(p \o s, iA) /\ iA - prevA < MaxBytes
                     /\ UNCHANGED <<prevA, blocksA>>
                  \/ /\ A!Boundary(p \o s, iA) \/ iA - prevA >= MaxBytes
                     /\ prevA' = iA /\ blocksA' = Append(blocksA, <<prevA, iA>>)
            \/ /\ PosA >= Len(s) /\ pcA' = "done" /\ UNCHANGED <<iA, prevA>>
               /\ blocksA' = IF prevA # Len(p) + Len(s)
                             THEN Append(blocksA, <<prevA, Len(p) + Len(s)>>) ELSE blocksA
         /\ Started(blocksA', iA', prevA', pcA')
<1>1. /\ p \in Heads /\ s \in Tails /\ Len(p) \in Nat /\ Len(s) \in Nat
      /\ Len(p \o s) = Len(p) + Len(s) /\ Len(p) + Len(s) < UIntRange /\ UIntRange \in Nat \ {0}
  BY FileBytes DEF Inv
<1>2. /\ blocksA \in Seq(Nat \X Nat) /\ iA \in Nat /\ iA >= 2 /\ prevA \in Nat
      /\ pcA = "loop" => prevA < iA
      /\ \A l \in 1 .. Len(blocksA) : blocksA[l][1] < iA
      /\ MaxBytes \in Nat
  BY ResyncAssumption DEF Inv, Started
<1>3. pcA = "loop"
  BY DEF A!Next, A!Skip, A!Cut, A!Finish, A!InLoop
<1>4. ASSUME NEW c \in Nat, NEW b \in Nat, blocksA' = Append(blocksA, <<prevA, c>>), b >= iA
      PROVE  /\ blocksA' \in Seq(Nat \X Nat)
             /\ \A l \in 1 .. Len(blocksA') : blocksA'[l][1] < b
  <2>1. /\ blocksA' \in Seq(Nat \X Nat)
        /\ Len(blocksA') = Len(blocksA) + 1 /\ Len(blocksA) \in Nat
        /\ \A l \in 1 .. Len(blocksA) : blocksA'[l] = blocksA[l]
        /\ blocksA'[Len(blocksA) + 1] = <<prevA, c>>
    BY <1>2, <1>4, SinceAppend
  <2>2. ASSUME NEW l \in 1 .. Len(blocksA')
        PROVE  blocksA'[l][1] < b
    <3>1. CASE l \in 1 .. Len(blocksA)
      <4>1. blocksA[l][1] \in Nat /\ blocksA[l][1] < iA
        BY <1>2, <3>1
      <4>2. QED
        BY <1>2, <1>4, <2>1, <3>1, <4>1
    <3>2. CASE l = Len(blocksA) + 1
      BY <1>2, <1>3, <1>4, <2>1, <3>2
    <3>3. QED
      BY <2>1, <3>1, <3>2
  <2>3. QED
    BY <2>1, <2>2
<1>5. CASE A!Skip
  <2>1. /\ iA < Len(p) + Len(s) /\ ~A!Boundary(p \o s, iA) /\ ~(iA - prevA >= MaxBytes)
        /\ iA' = (iA + 1) % UIntRange /\ UNCHANGED <<prevA, blocksA, pcA>>
    BY <1>1, <1>5 DEF A!Skip, A!InLoop, A!TooLarge
  <2>2. iA' = iA + 1
    BY <1>1, <1>2, <2>1, SmallMod
  <2>3. \A l \in 1 .. Len(blocksA) : blocksA[l][1] \in Nat
    BY <1>2
  <2>4. Started(blocksA', iA', prevA', pcA')
    BY <1>2, <1>3, <2>1, <2>2, <2>3 DEF Started
  <2>5. QED
    BY <1>1, <1>2, <1>3, <2>1, <2>2, <2>4 DEF PosA
<1>6. CASE A!Cut
  <2>1. /\ iA < Len(p) + Len(s)
        /\ A!Boundary(p \o s, iA) \/ iA - prevA >= MaxBytes
        /\ iA' = (iA + 1) % UIntRange /\ prevA' = iA /\ blocksA' = Append(blocksA, <<prevA, iA>>)
        /\ UNCHANGED pcA
    BY <1>1, <1>6 DEF A!Cut, A!InLoop, A!TooLarge
  <2>2. iA' = iA + 1
    BY <1>1, <1>2, <2>1, SmallMod
  <2>3. /\ blocksA' \in Seq(Nat \X Nat)
        /\ \A l \in 1 .. Len(blocksA') : blocksA'[l][1] < iA + 1
    <3>1. iA + 1 \in Nat /\ iA + 1 >= iA
      BY <1>2
    <3>2. QED
      BY <1>2, <1>4, <2>1, <3>1
  <2>4. Started(blocksA', iA', prevA', pcA')
    BY <1>2, <1>3, <2>1, <2>2, <2>3 DEF Started
  <2>5. QED
    BY <1>1, <1>2, <1>3, <2>1, <2>2, <2>4 DEF PosA
<1>7. CASE A!Finish
  <2>1. /\ iA >= Len(p) + Len(s) /\ pcA' = "done" /\ UNCHANGED <<iA, prevA>>
        /\ blocksA' = IF prevA # Len(p) + Len(s)
                      THEN Append(blocksA, <<prevA, Len(p) + Len(s)>>) ELSE blocksA
    BY <1>1, <1>7 DEF A!Finish
  <2>2. /\ blocksA' \in Seq(Nat \X Nat)
        /\ \A l \in 1 .. Len(blocksA') : blocksA'[l][1] < iA
    <3>1. CASE blocksA' = blocksA
      BY <1>2, <3>1
    <3>2. CASE blocksA' = Append(blocksA, <<prevA, Len(p) + Len(s)>>)
      <4>1. Len(p) + Len(s) \in Nat /\ iA >= iA
        BY <1>1, <1>2
      <4>2. QED
        BY <1>2, <1>4, <3>2, <4>1
    <3>3. QED
      BY <2>1, <3>1, <3>2
  <2>3. Started(blocksA', iA', prevA', pcA')
    BY <1>2, <2>1, <2>2 DEF Started
  <2>4. QED
    BY <1>1, <1>2, <1>3, <2>1, <2>3 DEF PosA
<1>8. QED
  BY <1>5, <1>6, <1>7 DEF A!Next

\* One step of the run on q \o s: a turn of the loop, or the end.
LEMMA RunB ==
  ASSUME Inv, B!Next, UNCHANGED q, UNCHANGED s
  PROVE  /\ pcB = "loop"
         /\ \/ /\ PosB < Len(s) /\ iB' = iB + 1 /\ pcB' = "loop"
               /\ \/ /\ ~B!Boundary(q \o s, iB) /\ iB - prevB < MaxBytes
                     /\ UNCHANGED <<prevB, blocksB>>
                  \/ /\ B!Boundary(q \o s, iB) \/ iB - prevB >= MaxBytes
                     /\ prevB' = iB /\ blocksB' = Append(blocksB, <<prevB, iB>>)
            \/ /\ PosB >= Len(s) /\ pcB' = "done" /\ UNCHANGED <<iB, prevB>>
               /\ blocksB' = IF prevB # Len(q) + Len(s)
                             THEN Append(blocksB, <<prevB, Len(q) + Len(s)>>) ELSE blocksB
         /\ Started(blocksB', iB', prevB', pcB')
<1>1. /\ q \in Heads /\ s \in Tails /\ Len(q) \in Nat /\ Len(s) \in Nat
      /\ Len(q \o s) = Len(q) + Len(s) /\ Len(q) + Len(s) < UIntRange /\ UIntRange \in Nat \ {0}
  BY FileBytes DEF Inv
<1>2. /\ blocksB \in Seq(Nat \X Nat) /\ iB \in Nat /\ iB >= 2 /\ prevB \in Nat
      /\ pcB = "loop" => prevB < iB
      /\ \A l \in 1 .. Len(blocksB) : blocksB[l][1] < iB
      /\ MaxBytes \in Nat
  BY ResyncAssumption DEF Inv, Started
<1>3. pcB = "loop"
  BY DEF B!Next, B!Skip, B!Cut, B!Finish, B!InLoop
<1>4. ASSUME NEW c \in Nat, NEW b \in Nat, blocksB' = Append(blocksB, <<prevB, c>>), b >= iB
      PROVE  /\ blocksB' \in Seq(Nat \X Nat)
             /\ \A l \in 1 .. Len(blocksB') : blocksB'[l][1] < b
  <2>1. /\ blocksB' \in Seq(Nat \X Nat)
        /\ Len(blocksB') = Len(blocksB) + 1 /\ Len(blocksB) \in Nat
        /\ \A l \in 1 .. Len(blocksB) : blocksB'[l] = blocksB[l]
        /\ blocksB'[Len(blocksB) + 1] = <<prevB, c>>
    BY <1>2, <1>4, SinceAppend
  <2>2. ASSUME NEW l \in 1 .. Len(blocksB')
        PROVE  blocksB'[l][1] < b
    <3>1. CASE l \in 1 .. Len(blocksB)
      <4>1. blocksB[l][1] \in Nat /\ blocksB[l][1] < iB
        BY <1>2, <3>1
      <4>2. QED
        BY <1>2, <1>4, <2>1, <3>1, <4>1
    <3>2. CASE l = Len(blocksB) + 1
      BY <1>2, <1>3, <1>4, <2>1, <3>2
    <3>3. QED
      BY <2>1, <3>1, <3>2
  <2>3. QED
    BY <2>1, <2>2
<1>5. CASE B!Skip
  <2>1. /\ iB < Len(q) + Len(s) /\ ~B!Boundary(q \o s, iB) /\ ~(iB - prevB >= MaxBytes)
        /\ iB' = (iB + 1) % UIntRange /\ UNCHANGED <<prevB, blocksB, pcB>>
    BY <1>1, <1>5 DEF B!Skip, B!InLoop, B!TooLarge
  <2>2. iB' = iB + 1
    BY <1>1, <1>2, <2>1, SmallMod
  <2>3. \A l \in 1 .. Len(blocksB) : blocksB[l][1] \in Nat
    BY <1>2
  <2>4. Started(blocksB', iB', prevB', pcB')
    BY <1>2, <1>3, <2>1, <2>2, <2>3 DEF Started
  <2>5. QED
    BY <1>1, <1>2, <1>3, <2>1, <2>2, <2>4 DEF PosB
<1>6. CASE B!Cut
  <2>1. /\ iB < Len(q) + Len(s)
        /\ B!Boundary(q \o s, iB) \/ iB - prevB >= MaxBytes
        /\ iB' = (iB + 1) % UIntRange /\ prevB' = iB /\ blocksB' = Append(blocksB, <<prevB, iB>>)
        /\ UNCHANGED pcB
    BY <1>1, <1>6 DEF B!Cut, B!InLoop, B!TooLarge
  <2>2. iB' = iB + 1
    BY <1>1, <1>2, <2>1, SmallMod
  <2>3. /\ blocksB' \in Seq(Nat \X Nat)
        /\ \A l \in 1 .. Len(blocksB') : blocksB'[l][1] < iB + 1
    <3>1. iB + 1 \in Nat /\ iB + 1 >= iB
      BY <1>2
    <3>2. QED
      BY <1>2, <1>4, <2>1, <3>1
  <2>4. Started(blocksB', iB', prevB', pcB')
    BY <1>2, <1>3, <2>1, <2>2, <2>3 DEF Started
  <2>5. QED
    BY <1>1, <1>2, <1>3, <2>1, <2>2, <2>4 DEF PosB
<1>7. CASE B!Finish
  <2>1. /\ iB >= Len(q) + Len(s) /\ pcB' = "done" /\ UNCHANGED <<iB, prevB>>
        /\ blocksB' = IF prevB # Len(q) + Len(s)
                      THEN Append(blocksB, <<prevB, Len(q) + Len(s)>>) ELSE blocksB
    BY <1>1, <1>7 DEF B!Finish
  <2>2. /\ blocksB' \in Seq(Nat \X Nat)
        /\ \A l \in 1 .. Len(blocksB') : blocksB'[l][1] < iB
    <3>1. CASE blocksB' = blocksB
      BY <1>2, <3>1
    <3>2. CASE blocksB' = Append(blocksB, <<prevB, Len(q) + Len(s)>>)
      <4>1. Len(q) + Len(s) \in Nat /\ iB >= iB
        BY <1>1, <1>2
      <4>2. QED
        BY <1>2, <1>4, <3>2, <4>1
    <3>3. QED
      BY <2>1, <3>1, <3>2
  <2>3. Started(blocksB', iB', prevB', pcB')
    BY <1>2, <2>1, <2>2 DEF Started
  <2>4. QED
    BY <1>1, <1>2, <1>3, <2>1, <2>3 DEF PosB
<1>8. QED
  BY <1>5, <1>6, <1>7 DEF B!Next

\* A run that is behind moves alone, and no boundary of s is passed yet.
LEMMA StepAInv ==
  ASSUME Inv, StepA
  PROVE  Inv'
<1>1. /\ p \in Heads /\ q \in Heads /\ s \in Tails
      /\ Len(p) \in Nat /\ Len(q) \in Nat /\ Len(s) \in Nat
      /\ UNCHANGED <<p, q, s, iB, prevB, blocksB, pcB>>
  BY FileBytes DEF Inv, StepA, varsB
<1>2. Level /\ Started(blocksA, iA, prevA, pcA) /\ Started(blocksB, iB, prevB, pcB)
  BY DEF Inv
<1>3. /\ pcA = "loop"
      /\ \/ PosA < Len(s) /\ iA' = iA + 1 /\ pcA' = "loop"
         \/ PosA >= Len(s) /\ pcA' = "done" /\ iA' = iA
      /\ Started(blocksA', iA', prevA', pcA')
  BY <1>1, RunA DEF StepA
<1>4. PosA < PosB \/ pcB = "done"
  BY DEF StepA
<1>5. iA \in Nat /\ iB \in Nat /\ iA >= 2 /\ iB >= 2
  BY <1>2 DEF Started
<1>6. PosA # PosB /\ PosA <= 2 /\ PosB <= 2
  BY <1>1, <1>2, <1>3, <1>4, <1>5 DEF Level, PosA, PosB
<1>7. Level'
  <2>1. /\ PosA \in Int /\ PosB \in Int /\ PosB' = PosB
        /\ \/ PosA < Len(s) /\ PosA' = PosA + 1 /\ pcA' = "loop"
           \/ PosA >= Len(s) /\ PosA' = PosA /\ pcA' = "done"
        /\ pcB' = pcB /\ pcB \in {"loop", "done"} /\ Len(s)' = Len(s)
    <3>1. PosA' = iA' - Len(p) /\ PosA = iA - Len(p) /\ PosB = iB - Len(q)
          /\ PosB' = PosB
      BY <1>1 DEF PosA, PosB
    <3>2. pcB' = pcB /\ pcB \in {"loop", "done"} /\ Len(s)' = Len(s)
      BY <1>1, <1>2 DEF Started
    <3>3. iA' = iA + 1 => PosA' = PosA + 1
      BY <1>1, <1>5, <3>1
    <3>4. QED
      BY <1>1, <1>3, <1>5, <3>1, <3>2, <3>3
  <2>2. PosB < PosA => pcB = "done" /\ PosA >= Len(s)
    BY <1>1, <1>2, <1>4, <1>6, <2>1 DEF Level
  <2>3. QED
    BY <1>1, <1>2, <1>3, <1>6, <2>1, <2>2 DEF Level
<1>8. Resynced'
  <2>1. PosB' = PosB /\ PosA' \in Int /\ PosB \in Int
    BY <1>1, <1>3, <1>5 DEF PosA, PosB
  <2>2. PosA' = PosB' => \A k \in 2 .. PosA' - 1 : FALSE
    BY <1>6, <2>1
  <2>3. QED
    BY <2>2 DEF Resynced
<1>9. Started(blocksB, iB, prevB, pcB)'
  BY <1>1, <1>2 DEF Started
<1>10. Started(blocksA, iA, prevA, pcA)'
  BY <1>3 DEF Started
<1>11. QED
  BY <1>1, <1>7, <1>8, <1>9, <1>10 DEF Inv

LEMMA StepBInv ==
  ASSUME Inv, StepB
  PROVE  Inv'
<1>1. /\ p \in Heads /\ q \in Heads /\ s \in Tails
      /\ Len(p) \in Nat /\ Len(q) \in Nat /\ Len(s) \in Nat
      /\ UNCHANGED <<p, q, s, iA, prevA, blocksA, pcA>>
  BY FileBytes DEF Inv, StepB, varsA
<1>2. Level /\ Started(blocksB, iB, prevB, pcB) /\ Started(blocksA, iA, prevA, pcA)
  BY DEF Inv
<1>3. /\ pcB = "loop"
      /\ \/ PosB < Len(s) /\ iB' = iB + 1 /\ pcB' = "loop"
         \/ PosB >= Len(s) /\ pcB' = "done" /\ iB' = iB
      /\ Started(blocksB', iB', prevB', pcB')
  BY <1>1, RunB DEF StepB
<1>4. PosB < PosA \/ pcA = "done"
  BY DEF StepB
<1>5. iB \in Nat /\ iA \in Nat /\ iB >= 2 /\ iA >= 2
  BY <1>2 DEF Started
<1>6. PosB # PosA /\ PosB <= 2 /\ PosA <= 2
  BY <1>1, <1>2, <1>3, <1>4, <1>5 DEF Level, PosB, PosA
<1>7. Level'
  <2>1. /\ PosB \in Int /\ PosA \in Int /\ PosA' = PosA
        /\ \/ PosB < Len(s) /\ PosB' = PosB + 1 /\ pcB' = "loop"
           \/ PosB >= Len(s) /\ PosB' = PosB /\ pcB' = "done"
        /\ pcA' = pcA /\ pcA \in {"loop", "done"} /\ Len(s)' = Len(s)
    <3>1. PosB' = iB' - Len(q) /\ PosB = iB - Len(q) /\ PosA = iA - Len(p)
          /\ PosA' = PosA
      BY <1>1 DEF PosB, PosA
    <3>2. pcA' = pcA /\ pcA \in {"loop", "done"} /\ Len(s)' = Len(s)
      BY <1>1, <1>2 DEF Started
    <3>3. iB' = iB + 1 => PosB' = PosB + 1
      BY <1>1, <1>5, <3>1
    <3>4. QED
      BY <1>1, <1>3, <1>5, <3>1, <3>2, <3>3
  <2>2. PosA < PosB => pcA = "done" /\ PosB >= Len(s)
    BY <1>1, <1>2, <1>4, <1>6, <2>1 DEF Level
  <2>3. QED
    BY <1>1, <1>2, <1>3, <1>6, <2>1, <2>2 DEF Level
<1>8. Resynced'
  <2>1. PosA' = PosA /\ PosB' \in Int /\ PosA \in Int
    BY <1>1, <1>3, <1>5 DEF PosB, PosA
  <2>2. PosB' = PosA' => \A k \in 2 .. PosB' - 1 : FALSE
    BY <1>6, <2>1
  <2>3. QED
    BY <2>2 DEF Resynced
<1>9. Started(blocksA, iA, prevA, pcA)'
  BY <1>1, <1>2 DEF Started
<1>10. Started(blocksB, iB, prevB, pcB)'
  BY <1>3 DEF Started
<1>11. QED
  BY <1>1, <1>7, <1>8, <1>9, <1>10 DEF Inv

\* The runs are level and move together.  Where s has a boundary both cut; from
\* there on their open blocks start at the same byte, and they cut together.
LEMMA StepBothInv ==
  ASSUME Inv, StepBoth
  PROVE  Inv'
<1> DEFINE m == Len(p)
           n == Len(q)
<1>1. /\ p \in Heads /\ q \in Heads /\ s \in Tails
      /\ m \in Nat /\ n \in Nat /\ Len(s) \in Nat /\ MaxBytes \in Nat
      /\ UNCHANGED <<p, q, s>> /\ PosA = PosB
  BY FileBytes, ResyncAssumption DEF Inv, StepBoth
<1>2. Level /\ Started(blocksA, iA, prevA, pcA) /\ Started(blocksB, iB, prevB, pcB)
  BY DEF Inv
<1>3. /\ iA \in Nat /\ iA >= 2 /\ prevA \in Nat
      /\ iB \in Nat /\ iB >= 2 /\ prevB \in Nat
      /\ PosA \in Int /\ iA = m + PosA /\ iB = n + PosA
  BY <1>1, <1>2 DEF Started, PosA, PosB
<1>4. /\ blocksA \in Seq(Nat \X Nat) /\ iA \in Nat /\ prevA \in Nat /\ m \in Nat
      /\ blocksB \in Seq(Nat \X Nat) /\ iB \in Nat /\ prevB \in Nat /\ n \in Nat
  BY <1>1, <1>2 DEF Started
<1>5. /\ pcA = "loop" /\ pcB = "loop"
      /\ Started(blocksA, iA, prevA, pcA)' /\ Started(blocksB, iB, prevB, pcB)'
  BY <1>1, RunA, RunB DEF StepBoth, Started
<1>6. CASE PosA < Len(s)
  <2>1. /\ iA' = iA + 1 /\ pcA' = "loop"
        /\ \/ /\ ~A!Boundary(p \o s, iA) /\ iA - prevA < MaxBytes
              /\ UNCHANGED <<prevA, blocksA>>
           \/ /\ A!Boundary(p \o s, iA) \/ iA - prevA >= MaxBytes
              /\ prevA' = iA /\ blocksA' = Append(blocksA, <<prevA, iA>>)
    BY <1>1, <1>3, <1>6, RunA DEF StepBoth
  <2>2. /\ iB' = iB + 1 /\ pcB' = "loop"
        /\ \/ /\ ~B!Boundary(q \o s, iB) /\ iB - prevB < MaxBytes
              /\ UNCHANGED <<prevB, blocksB>>
           \/ /\ B!Boundary(q \o s, iB) \/ iB - prevB >= MaxBytes
              /\ prevB' = iB /\ blocksB' = Append(blocksB, <<prevB, iB>>)
    BY <1>1, <1>3, <1>6, RunB DEF StepBoth
  <2>3. PosA' = PosA + 1 /\ PosB' = PosA + 1
    BY <1>1, <1>3, <2>1, <2>2 DEF PosA, PosB
  <2>4. Level'
    BY <1>1, <1>3, <2>1, <2>2, <2>3 DEF Level
  <2>5. ASSUME NEW k \in 2 .. PosA, A!Boundary(s, k)
        PROVE  /\ prevA' - m = prevB' - n
               /\ Since(k, blocksA', m) = Since(k, blocksB', n)
    <3>0. k \in Nat
      OBVIOUS
    <3>1. k \in Nat /\ k >= 2 /\ k <= PosA /\ PosA \in 2 .. Len(s) - 1
      BY <1>1, <1>3, <1>6
    <3>2. A!Boundary(p \o s, iA) <=> A!Boundary(s, PosA)
      BY <1>1, <1>3, <3>1, SameBoundary
    <3>3. B!Boundary(q \o s, iB) <=> A!Boundary(s, PosA)
      BY <1>1, <1>3, <3>1, SameBoundary DEF A!Boundary, B!Boundary
    <3>4. CASE k = PosA
      <4>1. /\ prevA' = iA /\ blocksA' = Append(blocksA, <<prevA, iA>>)
            /\ prevB' = iB /\ blocksB' = Append(blocksB, <<prevB, iB>>)
        BY <2>1, <2>2, <2>5, <3>2, <3>3, <3>4
      <4>2. prevA < iA /\ prevB < iB
        BY <1>2, <1>5 DEF Started
      <4>3. Since(k, blocksA, m) = {} /\ Since(k, blocksB, n) = {}
        <5>1. iA <= m + k /\ iB <= n + k
          BY <1>1, <1>3, <3>1, <3>4
        <5>2. /\ \A l \in 1 .. Len(blocksA) : blocksA[l][1] < iA
              /\ \A l \in 1 .. Len(blocksB) : blocksB[l][1] < iB
          BY <1>2 DEF Started
        <5>3. k \in Int
          OBVIOUS
        <5>4. QED
          BY <1>4, <5>1, <5>2, <5>3, SinceNone, Zenon
      <4>4. /\ Since(k, Append(blocksA, <<prevA, iA>>), m) =
                 Since(k, blocksA, m) \cup Added(k, prevA, iA, m)
            /\ Since(k, Append(blocksB, <<prevB, iB>>), n) =
                 Since(k, blocksB, n) \cup Added(k, prevB, iB, n)
        BY <1>4, <3>0, SinceAppend
      <4>5. ~(prevA >= m + k) /\ ~(prevB >= n + k)
        BY <1>1, <1>3, <3>1, <3>4, <4>2
      <4>6. Since(k, blocksA', m) = {} /\ Since(k, blocksB', n) = {}
        <5>1. Added(k, prevA, iA, m) = {} /\ Added(k, prevB, iB, n) = {}
          BY <4>5 DEF Added
        <5>2. QED
          BY <4>1, <4>3, <4>4, <5>1
      <4>7. prevA' - m = PosA /\ prevB' - n = PosA
        BY <1>1, <1>3, <4>1
      <4>8. QED
        BY <4>6, <4>7
    <3>5. CASE k < PosA
      <4>1. prevA - m = prevB - n /\ Since(k, blocksA, m) = Since(k, blocksB, n)
        <5>1. k \in 2 .. PosA - 1 /\ k < Len(s)
          BY <1>1, <1>3, <3>1, <3>5
        <5>2. QED
          BY <1>1, <2>5, <5>1 DEF Inv, Resynced
      <4>2. iA - prevA = iB - prevB
        BY <1>1, <1>3, <4>1
      <4>3. CASE A!Boundary(s, PosA) \/ iA - prevA >= MaxBytes
        <5>1. ~(iA - prevA < MaxBytes) \/ A!Boundary(s, PosA)
          BY <1>1, <1>3, <4>3
        <5>2. /\ prevA' = iA /\ blocksA' = Append(blocksA, <<prevA, iA>>)
              /\ prevB' = iB /\ blocksB' = Append(blocksB, <<prevB, iB>>)
          BY <2>1, <2>2, <3>2, <3>3, <4>2, <5>1
        <5>3. /\ Since(k, Append(blocksA, <<prevA, iA>>), m) =
                 Since(k, blocksA, m) \cup Added(k, prevA, iA, m)
              /\ Since(k, Append(blocksB, <<prevB, iB>>), n) =
                 Since(k, blocksB, n) \cup Added(k, prevB, iB, n)
          BY <1>4, <3>0, SinceAppend
        <5>4. iA - m = PosA /\ iB - n = PosA /\ (prevA >= m + k <=> prevB >= n + k)
          BY <1>1, <1>3, <3>1, <4>1
        <5>5. Added(k, prevA, iA, m) = Added(k, prevB, iB, n)
          BY <4>1, <5>4 DEF Added
        <5>6. QED
          BY <4>1, <5>2, <5>3, <5>4, <5>5
      <4>4. CASE ~A!Boundary(s, PosA) /\ ~(iA - prevA >= MaxBytes)
        <5>1. UNCHANGED <<prevA, blocksA, prevB, blocksB>>
          BY <2>1, <2>2, <3>2, <3>3, <4>2, <4>4
        <5>2. QED
          BY <4>1, <5>1
      <4>5. QED
        BY <4>3, <4>4
    <3>6. QED
      BY <1>3, <3>1, <3>4, <3>5
  <2>6. Resynced'
    <3>1. PosA' - 1 = PosA
      BY <1>3, <2>3
    <3>2. QED
      BY <1>1, <2>5, <3>1 DEF Resynced, A!Boundary
  <2>7. QED
    BY <1>1, <1>5, <2>4, <2>6 DEF Inv
<1>7. CASE ~(PosA < Len(s))
  <2>1. /\ pcA' = "done" /\ UNCHANGED <<iA, prevA>>
        /\ blocksA' = IF prevA # m + Len(s)
                      THEN Append(blocksA, <<prevA, m + Len(s)>>) ELSE blocksA
    BY <1>1, <1>7, RunA DEF StepBoth
  <2>2. /\ pcB' = "done" /\ UNCHANGED <<iB, prevB>>
        /\ blocksB' = IF prevB # n + Len(s)
                      THEN Append(blocksB, <<prevB, n + Len(s)>>) ELSE blocksB
    BY <1>1, <1>7, RunB DEF StepBoth
  <2>3. PosA' = PosA /\ PosB' = PosA
    BY <1>1, <2>1, <2>2 DEF PosA, PosB
  <2>4. Level'
    BY <1>1, <1>3, <1>7, <2>1, <2>2, <2>3 DEF Level
  <2>5. ASSUME NEW k \in 2 .. PosA - 1, k < Len(s), A!Boundary(s, k)
        PROVE  /\ prevA' - m = prevB' - n
               /\ Since(k, blocksA', m) = Since(k, blocksB', n)
    <3>1. prevA - m = prevB - n /\ Since(k, blocksA, m) = Since(k, blocksB, n)
      BY <1>1, <2>5 DEF Inv, Resynced
    <3>2. k \in Nat /\ m + Len(s) \in Nat /\ n + Len(s) \in Nat
      BY <1>1, <1>3
    <3>3. CASE prevA # m + Len(s)
      <4>1. prevB # n + Len(s)
        BY <1>1, <1>3, <3>1, <3>3
      <4>2. /\ blocksA' = Append(blocksA, <<prevA, m + Len(s)>>)
            /\ blocksB' = Append(blocksB, <<prevB, n + Len(s)>>)
        BY <2>1, <2>2, <3>3, <4>1
      <4>3. /\ Since(k, Append(blocksA, <<prevA, m + Len(s)>>), m) =
                 Since(k, blocksA, m) \cup Added(k, prevA, m + Len(s), m)
            /\ Since(k, Append(blocksB, <<prevB, n + Len(s)>>), n) =
                 Since(k, blocksB, n) \cup Added(k, prevB, n + Len(s), n)
        <5>1. ASSUME NEW a \in Nat, NEW b \in Nat
              PROVE  /\ Since(k, Append(blocksA, <<prevA, a>>), m) =
                          Since(k, blocksA, m) \cup Added(k, prevA, a, m)
                     /\ Since(k, Append(blocksB, <<prevB, b>>), n) =
                          Since(k, blocksB, n) \cup Added(k, prevB, b, n)
          BY <1>4, <3>2, SinceAppend
        <5>2. QED
          BY <3>2, <5>1
      <4>4. /\ (m + Len(s)) - m = (n + Len(s)) - n
            /\ prevA >= m + k <=> prevB >= n + k
        BY <1>1, <1>3, <3>1, <3>2
      <4>5. Added(k, prevA, m + Len(s), m) = Added(k, prevB, n + Len(s), n)
        BY <3>1, <4>4 DEF Added
      <4>6. QED
        BY <2>1, <2>2, <3>1, <4>2, <4>3, <4>5
    <3>4. CASE prevA = m + Len(s)
      <4>1. prevB = n + Len(s)
        BY <1>1, <1>3, <3>1, <3>4
      <4>2. QED
        BY <2>1, <2>2, <3>1, <3>4, <4>1
    <3>5. QED
      BY <3>3, <3>4
  <2>6. Resynced'
    BY <1>1, <2>3, <2>5 DEF Resynced, A!Boundary
  <2>7. QED
    BY <1>1, <1>5, <2>4, <2>6 DEF Inv
<1>8. QED
  BY <1>6, <1>7

LEMMA NextInv ==
  ASSUME Inv, [Next]_vars
  PROVE  Inv'
<1>1. CASE UNCHANGED vars
  <2>1. /\ UNCHANGED <<p, q, s, iA, prevA, blocksA, pcA, iB, prevB, blocksB, pcB>>
        /\ PosA' = PosA /\ PosB' = PosB
    BY <1>1 DEF vars, varsA, varsB, PosA, PosB
  <2>2. Started(blocksA, iA, prevA, pcA)' /\ Started(blocksB, iB, prevB, pcB)' /\ Level'
    BY <2>1 DEF Inv, Started, Level
  <2>3. Resynced'
    BY <2>1 DEF Inv, Resynced, A!Boundary
  <2>4. QED
    BY <2>1, <2>2, <2>3 DEF Inv
<1>2. QED
  BY <1>1, StepAInv, StepBInv, StepBothInv DEF Next

THEOREM ResyncInvariance == Spec => []Inv
<1>1. Inv /\ [Next]_vars => Inv'
  BY NextInv
<1>2. QED
  BY <1>1, InitInv, PTL DEF Spec

\* After the first boundary in what two versions of a file have in common at
\* their ends, they are cut alike, whatever the window function and the limit.
THEOREM CutAlike == Spec => []Resynced
<1>1. Inv => Resynced
  BY DEF Inv
<1>2. QED
  BY <1>1, ResyncInvariance, PTL
=============================================================================
