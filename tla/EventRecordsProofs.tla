------------------------- MODULE EventRecordsProofs -------------------------
(***************************************************************************)
(* Proofs about the records of events and of controls, for every set of    *)
(* inputs and controls and any number of events.  What the records of a    *)
(* call should be is a recursive function of its events (Expected).  An    *)
(* induction over events is made here in two ways: uniqueness of such a    *)
(* function by the least index at which two differ, existence by extending *)
(* the function of the events so far with the next one (Made).             *)
(***************************************************************************)
EXTENDS EventRecords, SequenceTheorems, NaturalsInduction, WellFoundedInduction, TLAPS

\* A set of numbers that is not empty has a least one.
LEMMA Least ==
  ASSUME NEW S \in SUBSET Nat, S # {}
  PROVE  \E x \in S : \A y \in S : x <= y
<1> DEFINE R == OpToRel(<, Nat)
<1>1. IsWellFoundedOn(R, Nat)
  BY NatLessThanWellFounded
<1>2. \A x, y \in Nat : x < y => <<x, y>> \in R
  BY DEF OpToRel
<1> HIDE DEF R
<1>3. PICK x \in S : \A y \in S : <<y, x>> \notin R
  BY <1>1, WFMin
<1>4. \A y \in S : x \in Nat /\ y \in Nat /\ ~(y < x)
  BY <1>2, <1>3
<1> QED
  BY <1>3, <1>4

\* Functions that obey the recursions of Seconds and of Objects.
Pairing(e, S) ==
    /\ S \in [0 .. Len(e) -> BOOLEAN]
    /\ \A i \in 0 .. Len(e) : S[i] <=> i >= 2 /\ IsPair(e[i - 1], e[i]) /\ ~S[i - 1]
Obj == {Information(p) : p \in Inputs}
Listing(e, S, R) ==
    /\ R \in [0 .. Len(e) -> Seq(Obj)]
    /\ R[0] = <<>>
    /\ \A i \in 1 .. Len(e) :
           R[i] = IF e[i] \notin Unknown /\ (i < Len(e) => ~S[i + 1])
                  THEN Append(R[i - 1], Information(e[i])) ELSE R[i - 1]

\* There is one such function.
LEMMA SecondsUnique ==
  ASSUME NEW e \in Seq(Inputs), NEW S, Pairing(e, S)
  PROVE  Seconds(e) = S
<1> DEFINE F(f) == [i \in 0 .. Len(e) |-> i >= 2 /\ IsPair(e[i - 1], e[i]) /\ ~f[i - 1]]
<1>1. Seconds(e) = CHOOSE f : f = F(f)
  BY DEF Seconds
<1>2. S = F(S)
  BY Zenon DEF Pairing
<1>3. PICK f : f = Seconds(e) /\ f = F(f)
  BY <1>1, <1>2
<1>4. Len(e) \in Nat
  OBVIOUS
<1>5. \A i \in 0 .. Len(e) : f[i] = (i >= 2 /\ IsPair(e[i - 1], e[i]) /\ ~f[i - 1])
  BY <1>3, Zenon
<1>6. \A i \in 0 .. Len(e) : S[i] = (i >= 2 /\ IsPair(e[i - 1], e[i]) /\ ~S[i - 1])
  BY <1>2, Zenon
<1>7. {i \in 0 .. Len(e) : f[i] # S[i]} = {}
  <2> DEFINE D == {i \in 0 .. Len(e) : f[i] # S[i]}
  <2> SUFFICES ASSUME D # {} PROVE FALSE
    OBVIOUS
  <2>1. D \in SUBSET Nat
    BY <1>4
  <2>2. PICK m \in D : \A k \in D : m <= k
    <3> HIDE DEF D
    <3> QED
      BY <2>1, Least
  <2>3. m \in 0 .. Len(e) /\ m \in Nat
    BY <1>4, <2>2
  <2>4. m >= 2 => f[m - 1] = S[m - 1]
    <3> SUFFICES ASSUME m >= 2 PROVE f[m - 1] = S[m - 1]
      OBVIOUS
    <3>1. m - 1 \in 0 .. Len(e) /\ ~(m <= m - 1)
      BY <1>4, <2>3
    <3>2. m - 1 \notin D
      BY <2>2, <3>1
    <3> QED
      BY <3>1, <3>2
  <2>5. f[m] = S[m]
    BY <1>5, <1>6, <2>3, <2>4, Zenon
  <2> QED
    BY <2>2, <2>5
<1>8. \A i \in 0 .. Len(e) : f[i] = S[i]
  BY <1>7
<1> QED
  <2>1. f = [i \in 0 .. Len(e) |-> f[i]]
    BY <1>3, Zenon
  <2>2. S = [i \in 0 .. Len(e) |-> S[i]]
    BY <1>2, Zenon
  <2> QED
    BY <1>3, <1>8, <2>1, <2>2

\* The same of the records.
LEMMA ObjectsUnique ==
  ASSUME NEW e \in Seq(Inputs), NEW S, NEW R, Pairing(e, S), Listing(e, S, R)
  PROVE  Objects(e) = R
<1> DEFINE F(f) == [i \in 0 .. Len(e) |->
                       IF i = 0 THEN <<>>
                       ELSE IF e[i] \notin Unknown /\ (i < Len(e) => ~S[i + 1])
                            THEN Append(f[i - 1], Information(e[i])) ELSE f[i - 1]]
<1>0. Seconds(e) = S
  BY SecondsUnique
<1>1. Objects(e) = CHOOSE f : f = F(f)
  BY <1>0 DEF Objects
<1>4. Len(e) \in Nat
  OBVIOUS
<1>a. \A i \in 0 .. Len(e) : i = 0 \/ i \in 1 .. Len(e)
  BY <1>4
<1>2. R = F(R)
  <2>1. \A i \in 0 .. Len(e) : R[i] = F(R)[i]
    BY <1>a DEF Listing
  <2>2. R = [i \in 0 .. Len(e) |-> R[i]]
    BY DEF Listing
  <2> QED
    BY <2>1, <2>2
<1>3. PICK f : f = Objects(e) /\ f = F(f)
  BY <1>1, <1>2
<1>5. f[0] = <<>> /\ R[0] = <<>>
  BY <1>3, <1>4 DEF Listing
<1>6. \A i \in 1 .. Len(e) : f[i] = IF e[i] \notin Unknown /\ (i < Len(e) => ~S[i + 1])
                                  THEN Append(f[i - 1], Information(e[i])) ELSE f[i - 1]
  <2>1. \A i \in 1 .. Len(e) : i # 0 /\ i \in 0 .. Len(e)
    BY <1>4
  <2> QED
    BY <1>3, <2>1
<1>7. {i \in 0 .. Len(e) : f[i] # R[i]} = {}
  <2> DEFINE D == {i \in 0 .. Len(e) : f[i] # R[i]}
  <2> SUFFICES ASSUME D # {} PROVE FALSE
    OBVIOUS
  <2>1. D \in SUBSET Nat
    BY <1>4
  <2>2. PICK m \in D : \A k \in D : m <= k
    <3> HIDE DEF D
    <3> QED
      BY <2>1, Least
  <2>3. m \in 0 .. Len(e) /\ m \in Nat
    BY <1>4, <2>2
  <2>4. m # 0
    BY <1>5, <2>2
  <2>5. m - 1 \in 0 .. Len(e) /\ ~(m <= m - 1) /\ m \in 1 .. Len(e)
    BY <1>4, <2>3, <2>4
  <2>6. f[m - 1] = R[m - 1]
    <3>1. m - 1 \notin D
      BY <2>2, <2>5
    <3> QED
      BY <2>5, <3>1
  <2>7. f[m] = R[m]
    BY <1>6, <2>5, <2>6 DEF Listing
  <2> QED
    BY <2>2, <2>7
<1>8. \A i \in 0 .. Len(e) : f[i] = R[i]
  BY <1>7
<1> QED
  <2>1. f = [i \in 0 .. Len(e) |-> f[i]]
    BY <1>3
  <2>2. R = [i \in 0 .. Len(e) |-> R[i]]
    BY DEF Listing
  <2> QED
    BY <1>3, <1>8, <2>1, <2>2

-----------------------------------------------------------------------------
(* Points and their information objects *)

\* A point has one information object, a double point shares its own with the other input.
LEMMA PointFacts ==
  ASSUME NEW p \in Inputs
  PROVE  /\ Information(p) \in Obj
         /\ IsDouble(p) \/ p \in Singles \/ p \in Unknown
         /\ IsDouble(p) => /\ p \notin Singles /\ p \notin Unknown
                           /\ Information(p) \in Doubles
                           /\ p = Information(p)[1] \/ p = Information(p)[2]
                           /\ Information(p)[1] \in Inputs /\ Information(p)[2] \in Inputs
                           /\ Len(Information(p)) = 2
                           /\ OtherOf(p) \in Inputs /\ IsDouble(OtherOf(p))
                           /\ Information(OtherOf(p)) = Information(p)
         /\ ~IsDouble(p) => Information(p) = <<p>>
         /\ \A d \in Doubles : p \in {d[1], d[2]} => IsDouble(p) /\ Information(p) = d
<1>1. Information(p) \in Obj
  BY DEF Obj
<1>2. IsDouble(p) \/ p \in Singles \/ p \in Unknown
  <2>1. ASSUME p \in UNION {{d[1], d[2]} : d \in Doubles} PROVE IsDouble(p)
    <3>1. PICK X \in {{d[1], d[2]} : d \in Doubles} : p \in X
      BY <2>1
    <3>2. PICK d \in Doubles : X = {d[1], d[2]}
      BY <3>1
    <3> QED
      BY <3>1, <3>2 DEF IsDouble
  <2> QED
    BY <2>1 DEF Inputs
<1>3. ~IsDouble(p) => Information(p) = <<p>>
  BY DEF Information
<1>4. ASSUME NEW q, NEW d \in Doubles, q \in {d[1], d[2]}
      PROVE  IsDouble(q) /\ DoubleOf(q) = d /\ Information(q) = d
  <2>1. IsDouble(q)
    BY <1>4 DEF IsDouble
  <2>2. DoubleOf(q) \in Doubles /\ q \in {DoubleOf(q)[1], DoubleOf(q)[2]}
    BY <1>4 DEF DoubleOf
  <2>3. DoubleOf(q) = d
    BY <1>4, <2>2, PointAssumption
  <2> QED
    BY <2>1, <2>3 DEF Information
<1>5. ASSUME IsDouble(p)
      PROVE  /\ p \notin Singles /\ p \notin Unknown
             /\ Information(p) \in Doubles
             /\ p = Information(p)[1] \/ p = Information(p)[2]
             /\ Information(p)[1] \in Inputs /\ Information(p)[2] \in Inputs
             /\ Len(Information(p)) = 2
             /\ OtherOf(p) \in Inputs /\ IsDouble(OtherOf(p))
             /\ Information(OtherOf(p)) = Information(p)
  <2>1. PICK d \in Doubles : p \in {d[1], d[2]}
    BY <1>5 DEF IsDouble
  <2>2. Information(p) = d /\ DoubleOf(p) = d
    BY <1>4, <2>1
  <2>3. d[1] \in Inputs /\ d[2] \in Inputs
    <3>1. {d[1], d[2]} \in {{c[1], c[2]} : c \in Doubles}
      OBVIOUS
    <3>2. {d[1], d[2]} \subseteq UNION {{c[1], c[2]} : c \in Doubles}
      BY <3>1
    <3> QED
      BY <3>2 DEF Inputs
  <2>4. d = <<d[1], d[2]>> /\ d[1] # d[2] /\ p \notin Singles /\ p \notin Unknown
    BY <2>1, PointAssumption
  <2>5. Len(d) = 2
    BY <2>4
  <2>6. OtherOf(p) \in {d[1], d[2]}
    BY <2>2 DEF OtherOf
  <2>7. IsDouble(OtherOf(p)) /\ Information(OtherOf(p)) = d
    BY <1>4, <2>6
  <2> QED
    BY <2>1, <2>2, <2>3, <2>4, <2>5, <2>6, <2>7
<1> QED
  BY <1>1, <1>2, <1>3, <1>4, <1>5

\* One more event adds its information object, but when it completes a pair.
LEMMA OneMore ==
  ASSUME NEW e \in Seq(Inputs), NEW p \in Inputs, NEW S, NEW R, Pairing(e, S), Listing(e, S, R)
  PROVE  LET n == Len(e)
             completes == n >= 1 /\ IsPair(e[n], p) /\ ~S[n]
         IN  \E T, Q :
                 /\ Pairing(Append(e, p), T) /\ Listing(Append(e, p), T, Q)
                 /\ T[n + 1] <=> completes
                 /\ Q[n + 1] = IF p \in Unknown \/ completes THEN R[n] ELSE Append(R[n], Information(p))
<1> DEFINE n == Len(e)
           completes == n >= 1 /\ IsPair(e[n], p) /\ ~S[n]
           g == Append(e, p)
           T == [i \in 0 .. n + 1 |-> IF i = n + 1 THEN completes ELSE S[i]]
           Q == [i \in 0 .. n + 1 |->
                    CASE i = n + 1 -> IF p \in Unknown \/ completes THEN R[n]
                                      ELSE Append(R[n], Information(p))
                      [] i = n     -> IF completes THEN R[n - 1] ELSE R[n]
                      [] OTHER     -> R[i]]
<1>1. n \in Nat /\ g \in Seq(Inputs) /\ Len(g) = n + 1 /\ g[n + 1] = p /\ \A i \in 1 .. n : g[i] = e[i]
  OBVIOUS
<1>2. /\ S \in [0 .. n -> BOOLEAN] /\ R \in [0 .. n -> Seq(Obj)] /\ R[0] = <<>>
      /\ \A i \in 0 .. n : S[i] <=> i >= 2 /\ IsPair(e[i - 1], e[i]) /\ ~S[i - 1]
      /\ \A i \in 1 .. n : R[i] = IF e[i] \notin Unknown /\ (i < n => ~S[i + 1])
                                  THEN Append(R[i - 1], Information(e[i])) ELSE R[i - 1]
  BY DEF Pairing, Listing
<1>3. Information(p) \in Obj /\ \A i \in 1 .. n : e[i] \in Inputs
  BY PointFacts
<1>4. /\ 0 \in 0 .. n /\ n \in 0 .. n /\ n + 1 \in 0 .. n + 1 /\ n \in 0 .. n + 1
      /\ \A i \in 0 .. n : i \in 0 .. n + 1 /\ i # n + 1
      /\ \A i \in 0 .. n + 1 : i = n + 1 \/ i \in 0 .. n
      /\ n >= 1 => n - 1 \in 0 .. n /\ n \in 1 .. n
  BY <1>1
<1>5. T[n + 1] = completes /\ \A i \in 0 .. n : T[i] = S[i]
  BY <1>4, Zenon
<1>6. T \in [0 .. n + 1 -> BOOLEAN]
  <2>1. \A i \in 0 .. n + 1 : (IF i = n + 1 THEN completes ELSE S[i]) \in BOOLEAN
    BY <1>2, <1>4, Zenon
  <2> QED
    BY <2>1
<1>7. ~(0 = 1) /\ (n = 0 => ~completes)
  BY <1>1
<1>8. Pairing(g, T)
  <2> SUFFICES ASSUME NEW i \in 0 .. n + 1
               PROVE  T[i] <=> i >= 2 /\ IsPair(g[i - 1], g[i]) /\ ~T[i - 1]
    BY <1>1, <1>6 DEF Pairing
  <2>1. CASE i \in 0 .. n
    <3>1. i >= 2 => i \in 1 .. n /\ i - 1 \in 1 .. n /\ i - 1 \in 0 .. n
      BY <1>1, <2>1
    <3>2. i >= 2 => g[i] = e[i] /\ g[i - 1] = e[i - 1] /\ T[i - 1] = S[i - 1]
      BY <1>1, <1>5, <3>1
    <3> HIDE DEF T, g
    <3> QED
      BY <1>2, <1>5, <2>1, <3>2
  <2>2. CASE i = n + 1
    <3>1. CASE n = 0
      <4>1. ~(i >= 2)
        BY <2>2, <3>1
      <4>2. ~completes
        BY <1>1, <3>1
      <4> HIDE DEF T, g, completes
      <4> QED
        BY <1>5, <2>2, <4>1, <4>2
    <3>2. CASE n >= 1
      <4>1. i >= 2 /\ i - 1 = n /\ n \in 1 .. n /\ n \in 0 .. n
        BY <1>1, <2>2, <3>2
      <4>2. g[i] = p /\ g[i - 1] = e[n] /\ T[i - 1] = S[n] /\ T[i] = completes
        BY <1>1, <1>5, <2>2, <4>1
      <4>3. completes <=> IsPair(e[n], p) /\ ~S[n]
        BY <3>2
      <4> HIDE DEF T, g, completes, n
      <4> QED
        BY <4>1, <4>2, <4>3
    <3> QED
      BY <1>1, <3>1, <3>2
  <2> QED
    BY <1>4, <2>1, <2>2
<1>9. Q[n + 1] = IF p \in Unknown \/ completes THEN R[n] ELSE Append(R[n], Information(p))
  BY <1>4
<1>10. Q[n] = IF completes THEN R[n - 1] ELSE R[n]
  BY <1>1, <1>4
<1>11. \A i \in 0 .. n : i # n => Q[i] = R[i]
  BY <1>4
<1>12. Q \in [0 .. n + 1 -> Seq(Obj)]
  <2> SUFFICES ASSUME NEW i \in 0 .. n + 1 PROVE Q[i] \in Seq(Obj)
    OBVIOUS
  <2>1. R[n] \in Seq(Obj) /\ Append(R[n], Information(p)) \in Seq(Obj)
    BY SMTT(30), <1>2, <1>3, <1>4
  <2>2. completes => R[n - 1] \in Seq(Obj)
    BY <1>2, <1>4
  <2>3. CASE i = n + 1
    BY <1>9, <2>1, <2>3
  <2>4. CASE i = n
    BY <1>10, <2>1, <2>2, <2>4
  <2>5. CASE i \in 0 .. n /\ i # n
    BY <1>2, <1>11, <2>5
  <2> QED
    BY <1>4, <2>3, <2>4, <2>5
<1>c. n >= 1 => R[n] = IF e[n] \notin Unknown THEN Append(R[n - 1], Information(e[n])) ELSE R[n - 1]
  <2>1. ~(n < n)
    BY <1>1
  <2> HIDE DEF n
  <2>2. ASSUME n \in 1 .. n
        PROVE  R[n] = IF e[n] \notin Unknown /\ (n < n => ~S[n + 1])
                      THEN Append(R[n - 1], Information(e[n])) ELSE R[n - 1]
    BY <1>2, <2>2
  <2> QED
    BY <1>4, <2>1, <2>2, Zenon
<1>13. completes => /\ p \notin Unknown /\ Information(p) = Information(e[n])
                    /\ R[n] = Append(R[n - 1], Information(e[n]))
  <2> SUFFICES ASSUME completes
               PROVE  /\ p \notin Unknown /\ Information(p) = Information(e[n])
                      /\ R[n] = Append(R[n - 1], Information(e[n]))
    OBVIOUS
  <2>1. n \in 1 .. n /\ e[n] \in Inputs /\ IsDouble(e[n]) /\ p = OtherOf(e[n])
    BY <1>3, <1>4 DEF IsPair
  <2>2. e[n] \notin Unknown /\ p \notin Unknown /\ Information(p) = Information(e[n])
    BY <2>1, PointFacts
  <2>3. n >= 1
    OBVIOUS
  <2> HIDE DEF n
  <2> QED
    BY <1>c, <2>1, <2>2, <2>3, Zenon
<1>14. \A i \in 1 .. n + 1 :
           Q[i] = IF g[i] \notin Unknown /\ (i < n + 1 => ~T[i + 1])
                  THEN Append(Q[i - 1], Information(g[i])) ELSE Q[i - 1]
  <2> SUFFICES ASSUME NEW i \in 1 .. n + 1
               PROVE  Q[i] = IF g[i] \notin Unknown /\ (i < n + 1 => ~T[i + 1])
                             THEN Append(Q[i - 1], Information(g[i])) ELSE Q[i - 1]
    OBVIOUS
  <2> HIDE DEF T, Q, g
  <2>1. CASE i = n + 1
    <3>1. g[i] = p /\ ~(i < n + 1) /\ Q[i - 1] = Q[n]
      BY <1>1, <2>1
    <3>2. CASE completes
      BY <1>9, <1>10, <1>13, <2>1, <3>1, <3>2
    <3>3. CASE ~completes
      BY <1>9, <1>10, <2>1, <3>1, <3>3
    <3> QED
      BY <3>2, <3>3
  <2>2. CASE i = n
    <3>1. /\ n \in 1 .. n /\ g[i] = e[n] /\ i < n + 1 /\ T[i + 1] = completes
          /\ n - 1 \in 0 .. n /\ n - 1 # n
      BY <1>1, <1>5, <2>2
    <3>2. Q[i - 1] = R[n - 1]
      BY <1>11, <2>2, <3>1
    <3>3. R[n] = IF e[n] \notin Unknown THEN Append(R[n - 1], Information(e[n])) ELSE R[n - 1]
      BY <1>1, <1>c, <3>1
    <3> HIDE DEF completes, n
    <3>4. CASE completes
      BY <1>10, <2>2, <3>1, <3>2, <3>4
    <3>5. CASE ~completes
      BY <1>10, <2>2, <3>1, <3>2, <3>3, <3>5
    <3> QED
      BY <3>4, <3>5
  <2>3. CASE i \in 1 .. n - 1
    <3>1. /\ i \in 1 .. n /\ i \in 0 .. n /\ i # n /\ i - 1 \in 0 .. n /\ i - 1 # n
          /\ i + 1 \in 0 .. n /\ i < n /\ i < n + 1
      BY <1>1, <2>3
    <3>2. Q[i] = R[i] /\ Q[i - 1] = R[i - 1] /\ T[i + 1] = S[i + 1] /\ g[i] = e[i]
      BY <1>1, <1>5, <1>11, <3>1
    <3> HIDE DEF n
    <3> QED
      BY <1>2, <3>1, <3>2
  <2> QED
    BY <1>1, <2>1, <2>2, <2>3
<1>15. Q[0] = <<>>
  <2>1. CASE n = 0
    BY <1>2, <1>7, <1>10, <2>1
  <2>2. CASE n # 0
    BY <1>2, <1>4, <1>11, <2>2
  <2> QED
    BY <2>1, <2>2
<1>16. Listing(g, T, Q)
  <2> HIDE DEF T, Q, g
  <2> QED
    BY <1>1, <1>12, <1>14, <1>15 DEF Listing
<1>17. T[n + 1] <=> completes
  BY <1>5, Zenon
<1> HIDE DEF T, Q
<1> QED
  BY <1>8, <1>9, <1>16, <1>17

-----------------------------------------------------------------------------
(* The invariant of FSMID_SoeApp *)

Rec == [information : Obj, value : Nat]

SoeTypes ==
    /\ di \in [Inputs -> {0, 1}]
    /\ queue \in Seq(Inputs) /\ raw \in Seq(Inputs) /\ soelog \in Seq(Rec)
    /\ held \in {None} \cup {<<r>> : r \in Rec}
    /\ pc \in {"idle", "fetch", "record"}
    /\ begun \in [raw : Nat, soe : Nat] /\ begun.raw <= Len(raw) /\ begun.soe <= Len(soelog)
    /\ pc = "record" => begun.raw < Len(raw) /\ event = raw[Len(raw)]

\* The events that the call has processed, and the log with what it holds back.
Done == IF pc = "record" THEN Len(raw) - 1 ELSE Len(raw)
Events == SubSeq(raw, begun.raw + 1, Done)
Log == IF pc = "idle" THEN soelog ELSE soelog \o held

\* The records of the call are those of its events; one is held back just when the last
\* event may be the first of a pair.
Agrees(e, S, R) ==
    /\ Len(R[Len(e)]) = Len(Log) - begun.soe
    /\ \A j \in 1 .. Len(R[Len(e)]) : R[Len(e)][j] = Log[begun.soe + j].information
    /\ pc # "idle" =>
           /\ held # None <=> Len(e) >= 1 /\ IsDouble(e[Len(e)]) /\ ~S[Len(e)]
           /\ held # None => /\ otherpnt = <<OtherOf(e[Len(e)])>>
                             /\ held[1].information = Information(e[Len(e)])
Made == \E S, R : Pairing(Events, S) /\ Listing(Events, S, R) /\ Agrees(Events, S, R)

\* The last record of an information object is of its present value, or an event of it
\* is still to come.
ToCome(obj) ==
    \/ \E k \in 1 .. Len(queue) : Information(queue[k]) = obj
    \/ pc = "record" /\ Information(event) = obj
LastIs(log, obj, rec) ==
    \E i \in 1 .. Len(log) : log[i] = rec /\ \A j \in i + 1 .. Len(log) : log[j].information # obj
Current ==
    \A i \in 1 .. Done : raw[i] \notin Unknown =>
        LET obj == Information(raw[i])
        IN  ToCome(obj) \/ LastIs(Log, obj, [information |-> obj, value |-> Value(obj)])

SoeInv == SoeTypes /\ Made /\ Current

-----------------------------------------------------------------------------

\* A record is of its object and of the value of the database.
LEMMA SoeFacts ==
  ASSUME SoeTypes, NEW p \in Inputs
  PROVE  /\ Soe(p) \in Rec
         /\ Soe(p) = [information |-> Information(p), value |-> Value(Information(p))]
         /\ Soe(p).information = Information(p)
<1>1. Value(Information(p)) \in Nat
  <2>1. \A q \in Inputs : di[q] \in Nat
    BY DEF SoeTypes
  <2>2. CASE IsDouble(p)
    <3>1. PICK a \in Inputs, b \in Inputs : a = Information(p)[1] /\ b = Information(p)[2]
      BY <2>2, PointFacts
    <3>2. Len(Information(p)) = 2
      BY <2>2, PointFacts
    <3>3. Value(Information(p)) = 2 * di[a] + di[b]
      BY <3>1, <3>2 DEF Value
    <3> QED
      BY <2>1, <3>3
  <2>3. CASE ~IsDouble(p)
    <3>1. Information(p) = <<p>> /\ Len(<<p>>) = 1 /\ <<p>>[1] = p
      BY <2>3, PointFacts
    <3>2. Value(Information(p)) = 2 * di[p]
      BY <3>1 DEF Value
    <3> QED
      BY <2>1, <3>2
  <2> QED
    BY <2>2, <2>3
<1>2. Information(p) \in Obj
  BY PointFacts
<1> QED
  BY <1>1, <1>2 DEF Soe, Rec

\* The lists of the call.
Shape ==
    /\ Done \in Nat /\ begun.raw \in Nat /\ begun.soe \in Nat /\ begun.raw <= Done
    /\ Done <= Len(raw) /\ Len(raw) \in Nat
    /\ Events \in Seq(Inputs) /\ Len(Events) = Done - begun.raw
    /\ \A i \in 1 .. Len(Events) : Events[i] = raw[begun.raw + i]
    /\ Log \in Seq(Rec) /\ begun.soe <= Len(Log)
    /\ \A i \in 1 .. Len(raw) : raw[i] \in Inputs
    /\ held \in Seq(Rec)

\* The types of the events of the call.
LEMMA EventsFacts == SoeTypes => Shape
<1> SUFFICES ASSUME SoeTypes PROVE Shape
  OBVIOUS
<1>1. /\ Done \in Nat /\ begun.raw \in Nat /\ begun.soe \in Nat /\ begun.raw <= Done
      /\ Done <= Len(raw) /\ Len(raw) \in Nat
  BY DEF SoeTypes, Done
<1>2. \A i \in 1 .. Len(raw) : raw[i] \in Inputs
  BY DEF SoeTypes
<1>3. /\ Events \in Seq(Inputs) /\ Len(Events) = Done - begun.raw
      /\ \A i \in 1 .. Len(Events) : Events[i] = raw[begun.raw + i]
  <2>1. \A i \in begun.raw + 1 .. Done : raw[i] \in Inputs
    BY <1>1, <1>2
  <2>2. begun.raw + 1 \in Int /\ Done \in Int
    BY <1>1
  <2>3. /\ Events \in Seq(Inputs)
        /\ Len(Events) = IF begun.raw + 1 <= Done THEN Done - (begun.raw + 1) + 1 ELSE 0
        /\ \A i \in 1 .. Done - (begun.raw + 1) + 1 : Events[i] = raw[(begun.raw + 1) + i - 1]
    BY <2>1, <2>2, SubSeqProperties DEF Events
  <2>4. Len(Events) = Done - begun.raw
    BY <1>1, <2>3
  <2>5. \A i \in 1 .. Len(Events) : i \in 1 .. Done - (begun.raw + 1) + 1 /\ (begun.raw + 1) + i - 1 = begun.raw + i
    BY <1>1, <2>4
  <2> QED
    BY <2>3, <2>4, <2>5
<1>4. held \in Seq(Rec)
  <2>1. CASE held = <<>>
    BY <2>1
  <2>2. CASE held # <<>>
    <3>1. PICK r \in Rec : held = <<r>>
      BY <2>2 DEF SoeTypes, None
    <3> QED
      BY <3>1
  <2> QED
    BY <2>1, <2>2
<1>5. Log \in Seq(Rec) /\ begun.soe <= Len(Log)
  <2>1. soelog \in Seq(Rec) /\ begun.soe <= Len(soelog) /\ Len(soelog) \in Nat /\ Len(held) \in Nat
    BY <1>4 DEF SoeTypes
  <2>2. soelog \o held \in Seq(Rec) /\ Len(soelog \o held) = Len(soelog) + Len(held)
    BY <1>4, <2>1, ConcatProperties
  <2> QED
    BY <1>1, <2>1, <2>2 DEF Log
<1> QED
  BY <1>1, <1>2, <1>3, <1>4, <1>5 DEF Shape

\* The same after a step.
LEMMA EventsNext == SoeTypes' => Shape'
  BY EventsFacts, PTL

\* An input changes: of no information object but its own.
LEMMA ValueOfOthers ==
  ASSUME SoeTypes, NEW p \in Inputs, di' = [di EXCEPT ![p] = 1 - di[p]],
         NEW q \in Inputs, Information(q) # Information(p)
  PROVE  Value(Information(q))' = Value(Information(q))
<1>1. \A r \in Inputs : r # p => di'[r] = di[r]
  BY DEF SoeTypes
<1>2. CASE IsDouble(q)
  <2>1. PICK a \in Inputs, b \in Inputs : a = Information(q)[1] /\ b = Information(q)[2]
    BY <1>2, PointFacts
  <2>2. Information(q) \in Doubles /\ Len(Information(q)) = 2
    BY <1>2, PointFacts
  <2>3. a # p /\ b # p
    BY <2>1, <2>2, PointFacts
  <2>4. /\ Value(Information(q))' = 2 * di'[a] + di'[b]
        /\ Value(Information(q)) = 2 * di[a] + di[b]
    BY <2>1, <2>2 DEF Value
  <2> QED
    BY <1>1, <2>3, <2>4
<1>3. CASE ~IsDouble(q)
  <2>1. Information(q) = <<q>> /\ Len(<<q>>) = 1 /\ <<q>>[1] = q
    BY <1>3, PointFacts
  <2>2. q # p
    OBVIOUS
  <2>3. Value(Information(q))' = 2 * di'[q] /\ Value(Information(q)) = 2 * di[q]
    BY <2>1 DEF Value
  <2> QED
    BY <1>1, <2>2, <2>3
<1> QED
  BY <1>2, <1>3

\* What a step does to the last record of an object.
LEMMA LastKept ==
  ASSUME NEW log \in Seq(Rec), NEW rec \in Rec, NEW obj, NEW last, LastIs(log, obj, last),
         rec.information # obj
  PROVE  LastIs(Append(log, rec), obj, last)
<1>1. PICK i \in 1 .. Len(log) : log[i] = last /\ \A j \in i + 1 .. Len(log) : log[j].information # obj
  BY DEF LastIs
<1> DEFINE g == Append(log, rec)
<1>2. Len(g) = Len(log) + 1 /\ g[Len(log) + 1] = rec /\ (\A j \in 1 .. Len(log) : g[j] = log[j]) /\ Len(log) \in Nat
  OBVIOUS
<1> HIDE DEF g
<1>3. i \in 1 .. Len(g) /\ g[i] = last
  BY <1>1, <1>2
<1>4. \A j \in i + 1 .. Len(g) : g[j].information # obj
  <2> SUFFICES ASSUME NEW j \in i + 1 .. Len(g) PROVE g[j].information # obj
    OBVIOUS
  <2>1. CASE j = Len(log) + 1
    BY <1>2, <2>1
  <2>2. CASE j # Len(log) + 1
    <3>1. j \in i + 1 .. Len(log) /\ j \in 1 .. Len(log)
      BY <1>2, <2>2
    <3> QED
      BY <1>1, <1>2, <3>1
  <2> QED
    BY <2>1, <2>2
<1>5. LastIs(g, obj, last)
  BY <1>3, <1>4 DEF LastIs
<1> QED
  BY <1>5 DEF g

\* A record just added is the last of its object.
LEMMA LastAdded ==
  ASSUME NEW log \in Seq(Rec), NEW rec \in Rec
  PROVE  LastIs(Append(log, rec), rec.information, rec)
<1> DEFINE g == Append(log, rec)
<1>1. Len(g) = Len(log) + 1 /\ g[Len(log) + 1] = rec /\ Len(log) \in Nat
  OBVIOUS
<1> HIDE DEF g
<1>2. Len(log) + 1 \in 1 .. Len(g) /\ ~(\E j \in Len(log) + 1 + 1 .. Len(g) : TRUE)
  BY <1>1
<1>3. LastIs(g, rec.information, rec)
  BY <1>1, <1>2 DEF LastIs
<1> QED
  BY <1>3 DEF g

\* The last record is replaced by one of the same object.
LEMMA LastReplaced ==
  ASSUME NEW log \in Seq(Rec), log # <<>>, NEW rec \in Rec,
         log[Len(log)].information = rec.information
  PROVE  LET g == [log EXCEPT ![Len(log)] = rec]
         IN  /\ g \in Seq(Rec) /\ Len(g) = Len(log)
             /\ \A j \in 1 .. Len(log) : g[j].information = log[j].information
             /\ LastIs(g, rec.information, rec)
             /\ \A obj, last : obj # rec.information /\ last.information = obj /\ LastIs(log, obj, last) => LastIs(g, obj, last)
<1> DEFINE g == [log EXCEPT ![Len(log)] = rec]
<1>1. Len(log) \in Nat /\ Len(log) \in 1 .. Len(log)
  BY EmptySeq
<1>2. g \in Seq(Rec) /\ Len(g) = Len(log) /\ \A j \in 1 .. Len(log) : g[j] = IF j = Len(log) THEN rec ELSE log[j]
  BY <1>1, ExceptSeq
<1> HIDE DEF g
<1>3. \A j \in 1 .. Len(log) : g[j].information = log[j].information
  BY <1>2
<1>4. LastIs(g, rec.information, rec)
  <2>1. ~(\E j \in Len(log) + 1 .. Len(g) : TRUE)
    BY <1>1, <1>2
  <2> QED
    BY <1>1, <1>2, <2>1 DEF LastIs
<1>5. ASSUME NEW obj, NEW last, obj # rec.information, last.information = obj, LastIs(log, obj, last)
      PROVE  LastIs(g, obj, last)
  <2>1. PICK i \in 1 .. Len(log) : log[i] = last /\ \A j \in i + 1 .. Len(log) : log[j].information # obj
    BY <1>5 DEF LastIs
  <2>2. CASE i = Len(log)
    <3>1. g[i].information = rec.information
      BY <1>2, <2>2
    <3> QED
      BY <1>1, <1>2, <1>5, <2>1, <2>2, <3>1
  <2>3. CASE i # Len(log)
    <3>1. g[i] = last /\ \A j \in i + 1 .. Len(log) : g[j].information # obj
      BY <1>1, <1>2, <1>3, <2>1, <2>3
    <3> QED
      BY <1>2, <3>1 DEF LastIs
  <2> QED
    BY <2>2, <2>3
<1>6. /\ g \in Seq(Rec) /\ Len(g) = Len(log)
      /\ \A j \in 1 .. Len(log) : g[j].information = log[j].information
      /\ LastIs(g, rec.information, rec)
      /\ \A obj, last : obj # rec.information /\ last.information = obj /\ LastIs(log, obj, last) => LastIs(g, obj, last)
  BY <1>2, <1>3, <1>4, <1>5
<1> QED
  BY <1>6 DEF g

-----------------------------------------------------------------------------
(* The steps of FSMID_SoeApp *)

\* Does the event complete a pair with the record held back?
Completes == held # None /\ otherpnt = <<event>>

\* FSMID_SoeApp pairs an event just when the recursion does.
LEMMA CompletesFacts ==
  ASSUME SoeInv, pc = "record", NEW S, NEW R,
         Pairing(Events, S), Listing(Events, S, R), Agrees(Events, S, R)
  PROVE  /\ event \in Inputs
         /\ Completes <=> Len(Events) >= 1 /\ IsPair(Events[Len(Events)], event) /\ ~S[Len(Events)]
         /\ Completes => IsDouble(event) /\ held[1].information = Information(event)
<1>1. event \in Inputs
  BY EventsFacts DEF SoeInv, SoeTypes, Shape
<1>2. PICK n \in Nat : n = Len(Events)
  BY EventsFacts DEF SoeInv, Shape
<1>3. /\ held # None <=> n >= 1 /\ IsDouble(Events[n]) /\ ~S[n]
      /\ held # None => /\ otherpnt = <<OtherOf(Events[n])>>
                        /\ held[1].information = Information(Events[n])
  BY <1>2 DEF Agrees
<1>4. n >= 1 => Events[n] \in Inputs
  BY <1>2, EventsFacts DEF SoeInv, Shape
<1>5. Completes <=> n >= 1 /\ IsPair(Events[n], event) /\ ~S[n]
  <2>1. <<OtherOf(Events[n])>> = <<event>> <=> event = OtherOf(Events[n])
    OBVIOUS
  <2> QED
    BY <1>3, <2>1 DEF Completes, IsPair
<1>6. Completes => IsDouble(event) /\ held[1].information = Information(event)
  <2> SUFFICES ASSUME Completes PROVE IsDouble(event) /\ held[1].information = Information(event)
    OBVIOUS
  <2>1. n >= 1 /\ IsDouble(Events[n]) /\ event = OtherOf(Events[n]) /\ held # None
    BY <1>5 DEF IsPair, Completes
  <2> QED
    BY <1>3, <1>4, <2>1, PointFacts
<1> QED
  BY <1>1, <1>2, <1>5, <1>6

\* What an event does to the log: nothing, or it replaces the record held back, or a
\* record follows.
LEMMA RecordCases ==
  ASSUME SoeInv, Record
  PROVE  /\ pc = "record" /\ pc' = "fetch" /\ event \in Inputs
         /\ UNCHANGED <<di, queue, raw, event, begun, changes>>
         /\ soelog' \in Seq(Rec) /\ Log' = soelog' \o held' /\ Len(soelog) <= Len(soelog')
         /\ \/ /\ event \in Unknown /\ ~Completes
               /\ Log' = Log /\ held' = None
            \/ /\ Completes /\ IsDouble(event) /\ held' = None
               /\ Log # <<>> /\ Log[Len(Log)].information = Information(event)
               /\ Log' = [Log EXCEPT ![Len(Log)] = Soe(event)]
            \/ /\ event \notin Unknown /\ ~Completes
               /\ Log' = Append(Log, Soe(event))
               /\ IsDouble(event) => held' = <<Soe(event)>> /\ otherpnt' = <<OtherOf(event)>>
               /\ ~IsDouble(event) => held' = None
<1>1. /\ pc = "record" /\ pc' = "fetch"
      /\ UNCHANGED <<di, queue, raw, event, begun, changes>>
  BY DEF Record
<1>2. PICK S, R : Pairing(Events, S) /\ Listing(Events, S, R) /\ Agrees(Events, S, R)
  BY DEF SoeInv, Made
<1>3. event \in Inputs /\ (Completes => IsDouble(event) /\ held[1].information = Information(event))
  BY <1>1, <1>2, CompletesFacts
<1>4. SoeTypes /\ soelog \in Seq(Rec) /\ held \in Seq(Rec) /\ Log = soelog \o held
  BY <1>1, EventsFacts DEF SoeInv, SoeTypes, Log, Shape
<1>5. PICK r \in Rec : r = Soe(event)
  BY <1>3, <1>4, SoeFacts
<1>6. Log' = soelog' \o held'
  BY <1>1 DEF Log
<1>7. Log \in Seq(Rec) /\ Len(Log) = Len(soelog) + Len(held) /\ Len(soelog) \in Nat /\ Len(held) \in Nat
  BY <1>4, ConcatProperties
<1>8. /\ IsDouble(event) => event \notin Singles /\ event \notin Unknown
      /\ event \in Singles => event \notin Unknown
  BY <1>3, PointFacts, PointAssumption
<1>9. \A q \in Seq(Rec) : q \o <<>> = q /\ Append(q, r) = q \o <<r>> /\ Append(q, r) \in Seq(Rec)
                          /\ Len(Append(q, r)) = Len(q) + 1
  BY ConcatEmptySeq, AppendIsConcat
<1>10. CASE RecordUnknown
  <2>1. event \in Unknown /\ soelog' = Log /\ held' = None /\ ~Completes
    BY <1>3, <1>4, <1>8, <1>10 DEF RecordUnknown
  <2>2. Log' = Log
    BY <1>6, <1>7, <1>9, <2>1 DEF None
  <2> QED
    BY <1>1, <1>3, <1>6, <1>7, <2>1, <2>2
<1>11. CASE RecordSecond
  <2>1. Completes /\ IsDouble(event) /\ soelog' = Append(soelog, r) /\ held' = None /\ held # None
    BY <1>5, <1>11 DEF RecordSecond, Completes
  <2>2. PICK h \in Rec : held = <<h>>
    BY <1>4, <2>1 DEF SoeTypes
  <2>3. h.information = Information(event)
    BY <1>3, <2>1, <2>2
  <2>4. Log = Append(soelog, h)
    BY <1>4, <2>2, AppendIsConcat
  <2>5. Log # <<>> /\ Len(Log) = Len(soelog) + 1 /\ Log[Len(Log)] = h
    BY <1>4, <2>4
  <2>6. Log' = Append(soelog, r)
    BY <1>4, <1>6, <1>9, <2>1 DEF None
  <2>7. Append(soelog, r) = [Log EXCEPT ![Len(Log)] = r]
    <3>1. Len(Log) \in 1 .. Len(Log)
      BY <1>7, <2>5
    <3>2. /\ [Log EXCEPT ![Len(Log)] = r] \in Seq(Rec)
          /\ Len([Log EXCEPT ![Len(Log)] = r]) = Len(Log)
          /\ \A j \in 1 .. Len(Log) : [Log EXCEPT ![Len(Log)] = r][j] = IF j = Len(Log) THEN r ELSE Log[j]
      BY <1>7, <3>1, ExceptSeq
    <3>3. PICK g \in Seq(Rec) : /\ g = [Log EXCEPT ![Len(Log)] = r] /\ Len(g) = Len(Log)
                                /\ \A j \in 1 .. Len(Log) : g[j] = IF j = Len(Log) THEN r ELSE Log[j]
      BY <3>2
    <3>4. PICK a \in Seq(Rec) : /\ a = Append(soelog, r) /\ Len(a) = Len(soelog) + 1
                                /\ \A j \in 1 .. Len(soelog) : a[j] = soelog[j]
                                /\ a[Len(soelog) + 1] = r
      BY <1>4, AppendProperties
    <3>5. \A j \in 1 .. Len(soelog) : Log[j] = soelog[j]
      BY <1>4, <2>4, AppendProperties
    <3>6. \A j \in 1 .. Len(a) : a[j] = g[j]
      BY <1>7, <2>5, <3>3, <3>4, <3>5
    <3>7. a = g
      BY <2>5, <3>3, <3>4, <3>6, SeqEqual
    <3> QED
      BY <3>3, <3>4, <3>7
  <2> QED
    BY <1>1, <1>3, <1>4, <1>5, <1>6, <1>7, <1>9, <2>1, <2>3, <2>5, <2>6, <2>7
<1>12. CASE RecordFirst
  <2>1. IsDouble(event) /\ ~Completes /\ soelog' = Log /\ held' = <<r>> /\ otherpnt' = <<OtherOf(event)>>
    BY <1>4, <1>5, <1>12 DEF RecordFirst, Completes
  <2>2. Log' = Append(Log, r)
    BY <1>6, <1>7, <1>9, <2>1
  <2> QED
    BY <1>1, <1>3, <1>5, <1>6, <1>7, <1>8, <2>1, <2>2
<1>13. CASE RecordSingle
  <2>1. event \in Singles /\ ~IsDouble(event) /\ soelog' = Append(Log, r) /\ held' = None
    BY <1>4, <1>5, <1>8, <1>13 DEF RecordSingle
  <2>2. Log' = Append(Log, r) /\ ~Completes
    BY <1>3, <1>6, <1>7, <1>9, <2>1 DEF None
  <2> QED
    BY <1>1, <1>3, <1>5, <1>6, <1>7, <1>8, <1>9, <2>1, <2>2
<1> QED
  BY <1>10, <1>11, <1>12, <1>13 DEF Record

-----------------------------------------------------------------------------
(* The invariant is inductive *)

\* The invariant holds at first.
LEMMA SoeInit == Init => SoeInv
<1> SUFFICES ASSUME Init PROVE SoeInv
  OBVIOUS
<1>1. SoeTypes
  BY DEF Init, SoeTypes, None
<1>2. Done = 0 /\ begun.raw = 0 /\ begun.soe = 0 /\ Log = <<>> /\ pc = "idle"
  BY DEF Init, Done, Log
<1>3. Events \in Seq(Inputs) /\ Len(Events) = 0
  BY <1>1, <1>2, EventsFacts DEF Shape
<1>4. Made
  <2> DEFINE S == [i \in 0 .. 0 |-> FALSE]
             R == [i \in 0 .. 0 |-> <<>>]
  <2>1. \A i \in 0 .. 0 : i = 0 /\ ~(i >= 2)
    OBVIOUS
  <2>2. S \in [0 .. 0 -> BOOLEAN] /\ \A i \in 0 .. 0 : ~S[i]
    BY Zenon
  <2>3. Pairing(Events, S)
    BY <1>3, <2>1, <2>2 DEF Pairing
  <2>4. R \in [0 .. 0 -> Seq(Obj)] /\ R[0] = <<>>
    OBVIOUS
  <2>5. Listing(Events, S, R)
    BY <1>3, <2>4 DEF Listing
  <2>6. Agrees(Events, S, R)
    BY <1>2, <1>3, <2>4 DEF Agrees
  <2> HIDE DEF S, R
  <2> QED
    BY <2>3, <2>5, <2>6 DEF Made
<1>5. Current
  BY <1>2 DEF Current
<1> QED
  BY <1>1, <1>4, <1>5 DEF SoeInv

\* Nothing is done yet, or nothing is changed: what Made and Current are about is as it was.
LEMMA SameCall ==
  ASSUME SoeInv, SoeTypes', UNCHANGED <<begun, held, otherpnt>>, Events' = Events, Log' = Log,
         pc # "idle" \/ pc' = "idle"
  PROVE  Made'
<1>1. PICK S, R : Pairing(Events, S) /\ Listing(Events, S, R) /\ Agrees(Events, S, R)
  BY DEF SoeInv, Made
<1>2. Agrees(Events, S, R)'
  BY <1>1 DEF Agrees
<1>3. Pairing(Events, S)' /\ Listing(Events, S, R)'
  BY <1>1
<1> QED
  BY <1>2, <1>3 DEF Made

\* What is current stays so while neither values nor the log change.
LEMMA SameLog ==
  ASSUME SoeInv, UNCHANGED <<di>>, Log' = Log, Done' = Done, \A i \in 1 .. Done : raw'[i] = raw[i],
         \A obj : ToCome(obj) => ToCome(obj)'
  PROVE  Current'
<1>1. \A obj : Value(obj)' = Value(obj)
  BY DEF Value
<1> QED
  BY <1>1 DEF SoeInv, Current, LastIs

\* FSMID_SoeApp is called.
LEMMA CallStep == SoeInv /\ Call => SoeInv'
<1> SUFFICES ASSUME SoeInv, Call PROVE SoeInv'
  OBVIOUS
<1> USE DEF Call, None
<1>1. SoeTypes'
  <2>1. Len(raw) \in Nat /\ Len(soelog) \in Nat
    BY DEF SoeInv, SoeTypes
  <2> QED
    BY <2>1 DEF SoeInv, SoeTypes
<1>2. Done' = Len(raw) /\ Done = Len(raw) /\ begun'.raw = Len(raw) /\ begun'.soe = Len(soelog)
  BY DEF Done
<1>3. Log' = soelog /\ Log = soelog /\ soelog \in Seq(Rec)
  <2>1. soelog \o <<>> = soelog /\ soelog \in Seq(Rec)
    BY ConcatEmptySeq DEF SoeInv, SoeTypes
  <2> QED
    BY <2>1 DEF Log
<1>4. Events' \in Seq(Inputs) /\ Len(Events') = 0
  <2>1. Events' \in Seq(Inputs) /\ Len(Events') = Done' - begun'.raw /\ Len(raw') \in Nat
    BY <1>1, EventsNext DEF Shape
  <2> QED
    BY <1>2, <2>1
<1>5. Made'
  <2> DEFINE S == [i \in 0 .. 0 |-> FALSE]
             R == [i \in 0 .. 0 |-> <<>>]
  <2>1. \A i \in 0 .. 0 : i = 0 /\ ~(i >= 2)
    OBVIOUS
  <2>2. S \in [0 .. 0 -> BOOLEAN] /\ \A i \in 0 .. 0 : ~S[i]
    BY Zenon
  <2>3. Pairing(Events', S)
    BY <1>4, <2>1, <2>2 DEF Pairing
  <2>4. R \in [0 .. 0 -> Seq(Obj)] /\ R[0] = <<>>
    OBVIOUS
  <2>5. Listing(Events', S, R)
    BY <1>4, <2>4 DEF Listing
  <2>6. Len(soelog) - Len(soelog) = 0
    BY <1>3
  <2>7. Agrees(Events, S, R)'
    BY <1>2, <1>3, <1>4, <2>4, <2>6 DEF Agrees
  <2> HIDE DEF S, R
  <2> QED
    BY <2>3, <2>5, <2>7 DEF Made
<1>6. \A obj : ToCome(obj) => ToCome(obj)'
  BY DEF ToCome
<1>7. Current'
  BY <1>2, <1>3, <1>6, SameLog
<1> QED
  BY <1>1, <1>5, <1>7 DEF SoeInv

\* The next event is fetched.
LEMMA FetchStep == SoeInv /\ Fetch => SoeInv'
<1> SUFFICES ASSUME SoeInv, Fetch PROVE SoeInv'
  OBVIOUS
<1>1. /\ pc = "fetch" /\ pc' = "record" /\ queue # <<>> /\ event' = Head(queue) /\ queue' = Tail(queue)
      /\ raw' = Append(raw, Head(queue))
      /\ UNCHANGED <<di, soelog, held, otherpnt, begun, changes>>
  BY DEF Fetch
<1>2. queue \in Seq(Inputs) /\ raw \in Seq(Inputs) /\ Len(queue) \in Nat \ {0} /\ Len(raw) \in Nat
  BY <1>1, EmptySeq DEF SoeInv, SoeTypes
<1>3. /\ Head(queue) = queue[1] /\ Head(queue) \in Inputs /\ Tail(queue) \in Seq(Inputs)
      /\ Len(Tail(queue)) = Len(queue) - 1
      /\ \A i \in 1 .. Len(queue) - 1 : Tail(queue)[i] = queue[i + 1]
  BY <1>1, <1>2, HeadTailProperties
<1>4. /\ raw' \in Seq(Inputs) /\ Len(raw') = Len(raw) + 1 /\ raw'[Len(raw) + 1] = Head(queue)
      /\ \A i \in 1 .. Len(raw) : raw'[i] = raw[i]
  BY <1>1, <1>2, <1>3, AppendProperties
<1>5. SoeTypes'
  <2>1. begun.raw \in Nat /\ begun.raw <= Len(raw)
    BY DEF SoeInv, SoeTypes
  <2>2. begun.raw < Len(raw') /\ begun.raw <= Len(raw')
    BY <1>2, <1>4, <2>1
  <2> QED
    BY <1>1, <1>3, <1>4, <2>2 DEF SoeInv, SoeTypes
<1>6. Done' = Len(raw) /\ Done = Len(raw)
  BY <1>1, <1>2, <1>4 DEF Done
<1>7. Log' = Log
  BY <1>1 DEF Log
<1>8. Events' = Events
  <2>1. /\ Events \in Seq(Inputs) /\ Len(Events) = Done - begun.raw
        /\ \A i \in 1 .. Len(Events) : Events[i] = raw[begun.raw + i]
        /\ begun.raw \in Nat
    BY EventsFacts DEF SoeInv, Shape
  <2>2. /\ Events' \in Seq(Inputs) /\ Len(Events') = Done' - begun'.raw
        /\ \A i \in 1 .. Len(Events') : Events'[i] = raw'[begun'.raw + i]
    BY <1>5, EventsNext DEF Shape
  <2>3. \A i \in 1 .. Len(Events) : begun.raw + i \in 1 .. Len(raw)
    BY <1>2, <1>6, <2>1
  <2>4. Len(Events') = Len(Events)
    BY <1>1, <1>6, <2>1, <2>2
  <2>5. \A i \in 1 .. Len(Events) : Events[i] = Events'[i]
    BY <1>1, <1>4, <2>1, <2>2, <2>3, <2>4
  <2> QED
    BY <2>1, <2>2, <2>4, <2>5, SeqEqual
<1>9. Made'
  BY <1>1, <1>5, <1>7, <1>8, SameCall
<1>10. ASSUME NEW obj, ToCome(obj) PROVE ToCome(obj)'
  <2>1. PICK k \in 1 .. Len(queue) : Information(queue[k]) = obj
    BY <1>1, <1>10 DEF ToCome
  <2>2. CASE k = 1
    BY <1>1, <1>3, <2>1, <2>2 DEF ToCome
  <2>3. CASE k # 1
    <3>1. k - 1 \in 1 .. Len(queue) - 1 /\ (k - 1) + 1 = k
      BY <1>2, <2>1, <2>3
    <3>2. k - 1 \in 1 .. Len(queue') /\ queue'[k - 1] = queue[k]
      BY <1>1, <1>3, <3>1
    <3> QED
      BY <2>1, <3>2 DEF ToCome
  <2> QED
    BY <2>2, <2>3
<1>11. Current'
  BY <1>1, <1>4, <1>6, <1>7, <1>10, SameLog
<1> QED
  BY <1>5, <1>9, <1>11 DEF SoeInv

\* The call returns; what was held back is written.
LEMMA ReturnStep == SoeInv /\ Return => SoeInv'
<1> SUFFICES ASSUME SoeInv, Return PROVE SoeInv'
  OBVIOUS
<1>1. /\ pc = "fetch" /\ pc' = "idle" /\ soelog' = soelog \o held
      /\ UNCHANGED <<di, queue, raw, event, held, otherpnt, begun, changes>>
  BY DEF Return
<1>2. SoeTypes'
  <2>1. held \in Seq(Rec) /\ soelog \in Seq(Rec) /\ begun.soe \in Nat /\ begun.soe <= Len(soelog)
    BY EventsFacts DEF SoeInv, SoeTypes, Shape
  <2>2. soelog' \in Seq(Rec) /\ Len(soelog') = Len(soelog) + Len(held) /\ Len(soelog) \in Nat /\ Len(held) \in Nat
    BY <1>1, <2>1, ConcatProperties
  <2>3. begun.soe <= Len(soelog')
    BY <2>1, <2>2
  <2> QED
    BY <1>1, <2>2, <2>3 DEF SoeInv, SoeTypes
<1>3. Log' = Log /\ Done' = Done
  BY <1>1 DEF Log, Done
<1>4. Events' = Events
  BY <1>1, <1>3 DEF Events
<1>5. \A obj : ToCome(obj) => ToCome(obj)'
  BY <1>1 DEF ToCome
<1>6. Made' /\ Current'
  BY <1>1, <1>2, <1>3, <1>4, <1>5, SameCall, SameLog
<1> QED
  BY <1>2, <1>6 DEF SoeInv

\* An input changes: its event is queued, its last record no longer current.
LEMMA ChangeStep == ASSUME NEW p \in Inputs PROVE SoeInv /\ Change(p) => SoeInv'
<1> SUFFICES ASSUME SoeInv, Change(p) PROVE SoeInv'
  OBVIOUS
<1>1. /\ di' = [di EXCEPT ![p] = 1 - di[p]] /\ queue' = Append(queue, p)
      /\ UNCHANGED <<raw, soelog, pc, event, held, otherpnt, begun>>
  BY DEF Change
<1>2. SoeTypes /\ queue \in Seq(Inputs) /\ Len(queue) \in Nat
  BY DEF SoeInv, SoeTypes
<1>3. queue' \in Seq(Inputs) /\ Len(queue') = Len(queue) + 1 /\ queue'[Len(queue) + 1] = p
      /\ \A i \in 1 .. Len(queue) : queue'[i] = queue[i]
  BY <1>1, <1>2, AppendProperties
<1>4. SoeTypes'
  <2>1. di' \in [Inputs -> {0, 1}]
    BY <1>1, <1>2 DEF SoeTypes
  <2> QED
    BY <1>1, <1>2, <1>3, <2>1 DEF SoeTypes
<1>5. Log' = Log /\ Done' = Done
  BY <1>1 DEF Log, Done
<1>6. Events' = Events
  BY <1>1, <1>5 DEF Events
<1>7. Made'
  BY <1>1, <1>4, <1>5, <1>6, SameCall
<1>8. ASSUME NEW obj, ToCome(obj) PROVE ToCome(obj)'
  <2>1. ASSUME NEW k \in 1 .. Len(queue), Information(queue[k]) = obj PROVE ToCome(obj)'
    <3>1. k \in 1 .. Len(queue')
      BY <1>2, <1>3
    <3> QED
      BY <1>3, <2>1, <3>1 DEF ToCome
  <2> QED
    BY <1>1, <1>8, <2>1 DEF ToCome
<1>9. ToCome(Information(p))'
  <2>1. Len(queue) + 1 \in 1 .. Len(queue')
    BY <1>2, <1>3
  <2> QED
    BY <1>3, <2>1 DEF ToCome
<1>10. Current'
  <2> SUFFICES ASSUME NEW i \in 1 .. Done, raw[i] \notin Unknown,
                      NEW obj, obj = Information(raw[i]), ~ToCome(obj)'
               PROVE  LastIs(Log', obj, [information |-> obj, value |-> Value(obj)'])
    BY <1>1, <1>5 DEF Current
  <2>1. raw[i] \in Inputs
    BY <1>2, EventsFacts DEF Shape
  <2>2. obj # Information(p)
    BY <1>9
  <2>3. Value(obj)' = Value(obj)
    BY <1>1, <1>2, <2>1, <2>2, ValueOfOthers
  <2> QED
    BY <1>5, <1>8, <2>3 DEF SoeInv, Current
<1> QED
  BY <1>4, <1>7, <1>10 DEF SoeInv

\* An event is recorded, held back or dropped: types ...
LEMMA RecordTypes == SoeInv /\ Record => SoeTypes'
<1> SUFFICES ASSUME SoeInv, Record PROVE SoeTypes'
  OBVIOUS
<1>1. /\ pc' = "fetch" /\ event \in Inputs
      /\ UNCHANGED <<di, queue, raw, event, begun, changes>>
      /\ soelog' \in Seq(Rec) /\ Len(soelog) <= Len(soelog')
      /\ held' \in {held, None, <<Soe(event)>>}
  <2>1. held' \in {held, None, <<Soe(event)>>}
    BY DEF Record, RecordUnknown, RecordSecond, RecordFirst, RecordSingle
  <2> QED
    BY <2>1, RecordCases
<1>2. SoeTypes /\ Soe(event) \in Rec
  BY <1>1, SoeFacts DEF SoeInv
<1>3. held' \in {None} \cup {<<r>> : r \in Rec}
  <2>1. held \in {None} \cup {<<r>> : r \in Rec}
    BY <1>2 DEF SoeTypes
  <2> QED
    BY <1>1, <1>2, <2>1
<1>4. begun.soe <= Len(soelog')
  <2>1. begun.soe \in Nat /\ begun.soe <= Len(soelog) /\ Len(soelog) \in Nat /\ Len(soelog') \in Nat
    BY <1>1, <1>2 DEF SoeTypes
  <2> QED
    BY <1>1, <2>1
<1>5. soelog' \in Seq(Rec)
  BY <1>1
<1> QED
  BY <1>1, <1>2, <1>3, <1>4, <1>5 DEF SoeTypes

\* One more event is processed.
LEMMA RecordEventsOf ==
  ASSUME SoeInv, Record
  PROVE  /\ Done' = Done + 1 /\ raw[Done + 1] = event /\ Done + 1 = Len(raw)
         /\ Events' = Append(Events, event)
<1>1. /\ pc = "record" /\ pc' = "fetch" /\ event \in Inputs
      /\ UNCHANGED <<raw, event, begun>>
  BY RecordCases
<1>2. SoeTypes' /\ SoeTypes
  BY RecordTypes DEF SoeInv
<1>3. /\ Done \in Nat /\ begun.raw \in Nat /\ begun.raw <= Done /\ Len(raw) \in Nat
      /\ Events \in Seq(Inputs) /\ Len(Events) = Done - begun.raw
      /\ \A i \in 1 .. Len(Events) : Events[i] = raw[begun.raw + i]
  BY <1>2, EventsFacts DEF Shape
<1>4. /\ Events' \in Seq(Inputs) /\ Len(Events') = Done' - begun'.raw
      /\ \A i \in 1 .. Len(Events') : Events'[i] = raw'[begun'.raw + i]
  BY <1>2, EventsNext DEF Shape
<1>5. Done = Len(raw) - 1 /\ Done' = Len(raw) /\ event = raw[Len(raw)]
  BY <1>1, <1>2 DEF Done, SoeTypes
<1>6. Done' = Done + 1 /\ raw[Done + 1] = event /\ Done + 1 = Len(raw)
  BY <1>3, <1>5
<1>7. PICK a \in Seq(Inputs) : /\ a = Append(Events, event) /\ Len(a) = Len(Events) + 1
                               /\ \A i \in 1 .. Len(Events) : a[i] = Events[i]
                               /\ a[Len(Events) + 1] = event
  BY ZenonT(30), <1>1, <1>3, AppendProperties
<1>8. Len(Events) \in Nat /\ begun.raw + (Len(Events) + 1) = Len(raw) /\ Len(Events') = Len(Events) + 1
  BY <1>1, <1>3, <1>4, <1>5
<1>9. \A i \in 1 .. Len(a) : a[i] = Events'[i]
  <2> SUFFICES ASSUME NEW i \in 1 .. Len(a) PROVE a[i] = Events'[i]
    OBVIOUS
  <2>1. Events'[i] = raw[begun.raw + i]
    BY <1>1, <1>4, <1>7, <1>8
  <2>2. CASE i = Len(Events) + 1
    BY <1>5, <1>7, <1>8, <2>1, <2>2
  <2>3. CASE i # Len(Events) + 1
    <3>1. i \in 1 .. Len(Events)
      BY <1>7, <1>8, <2>3
    <3> QED
      BY <1>3, <1>7, <2>1, <3>1
  <2> QED
    BY <2>2, <2>3
<1>10. a = Events'
  BY <1>4, <1>7, <1>8, <1>9, SeqEqual
<1> QED
  BY <1>6, <1>7, <1>10

\* ... the records are those of one more event ...
LEMMA RecordMade == SoeInv /\ Record => Made'
<1> SUFFICES ASSUME SoeInv, Record PROVE Made'
  OBVIOUS
<1>1. PICK S, R : Pairing(Events, S) /\ Listing(Events, S, R) /\ Agrees(Events, S, R)
  BY DEF SoeInv, Made
<1>2. /\ pc = "record" /\ pc' = "fetch" /\ event \in Inputs /\ begun' = begun
  BY RecordCases
<1>3. PICK n \in Nat : n = Len(Events) /\ Events \in Seq(Inputs)
  BY EventsFacts DEF SoeInv, Shape
<1>4. Completes <=> n >= 1 /\ IsPair(Events[n], event) /\ ~S[n]
  BY <1>1, <1>2, <1>3, CompletesFacts
<1>5. PICK T, Q : /\ Pairing(Append(Events, event), T) /\ Listing(Append(Events, event), T, Q)
                  /\ T[n + 1] <=> Completes
                  /\ Q[n + 1] = IF event \in Unknown \/ Completes THEN R[n]
                                ELSE Append(R[n], Information(event))
  BY <1>1, <1>2, <1>3, <1>4, OneMore
<1>6. Events' = Append(Events, event)
  BY RecordEventsOf
<1>7. Pairing(Events', T) /\ Listing(Events', T, Q)
  BY <1>5, <1>6
<1>8. Len(Events') = n + 1 /\ Events'[n + 1] = event /\ n + 1 >= 1
  BY <1>2, <1>3, <1>6, AppendProperties
<1>9. PICK b \in Nat, m \in Nat :
          /\ b = begun.soe /\ b <= m /\ m = Len(Log) /\ Log \in Seq(Rec)
          /\ Log' \in Seq(Rec) /\ begun'.soe = b
  <2>1. SoeTypes'
    BY RecordTypes
  <2>2. begun.soe \in Nat /\ begun.soe <= Len(Log) /\ Log \in Seq(Rec) /\ Len(Log) \in Nat
    BY EventsFacts DEF SoeInv, Shape
  <2>3. Log' \in Seq(Rec)
    BY <2>1, EventsNext DEF Shape
  <2> QED
    BY <1>2, <2>2, <2>3
<1>10. PICK list \in Seq(Obj) : list = R[n]
  BY <1>1, <1>3 DEF Listing
<1>11. Len(list) = m - b /\ \A j \in 1 .. Len(list) : list[j] = Log[b + j].information
  BY <1>1, <1>3, <1>9, <1>10 DEF Agrees
<1>12. PICK obj \in Obj : obj = Information(event)
  BY <1>2, PointFacts
<1>13. PICK r \in Rec : r = Soe(event) /\ r.information = obj
  BY <1>2, <1>12, SoeFacts DEF SoeInv
<1>14. /\ Len(Q[n + 1]) = Len(Log') - b
       /\ \A j \in 1 .. Len(Q[n + 1]) : Q[n + 1][j] = Log'[b + j].information
  <2>1. CASE event \in Unknown /\ ~Completes /\ Log' = Log
    BY <1>5, <1>9, <1>10, <1>11, <2>1
  <2>2. CASE /\ Completes /\ Log # <<>> /\ Log[Len(Log)].information = Information(event)
             /\ Log' = [Log EXCEPT ![Len(Log)] = Soe(event)]
    <3>1. /\ Len(Log') = Len(Log)
          /\ \A j \in 1 .. Len(Log) : Log'[j].information = Log[j].information
      BY <1>9, <1>12, <1>13, <2>2, LastReplaced
    <3>2. Q[n + 1] = list
      BY <1>5, <1>10, <2>2
    <3>3. \A j \in 1 .. Len(list) : b + j \in 1 .. Len(Log)
      BY <1>9, <1>11
    <3> QED
      BY <1>9, <1>11, <3>1, <3>2, <3>3
  <2>3. CASE event \notin Unknown /\ ~Completes /\ Log' = Append(Log, Soe(event))
    <3>1. Q[n + 1] = Append(list, obj)
      BY <1>5, <1>10, <1>12, <2>3
    <3>2. PICK k \in Nat : k = Len(list)
      OBVIOUS
    <3>b. k = m - b
      BY <1>11, <3>2
    <3>a. /\ Len(Q[n + 1]) = k + 1 /\ Q[n + 1][k + 1] = obj
          /\ \A j \in 1 .. k : Q[n + 1][j] = list[j]
      <4>1. /\ Len(Append(list, obj)) = Len(list) + 1 /\ Append(list, obj)[Len(list) + 1] = obj
            /\ \A j \in 1 .. Len(list) : Append(list, obj)[j] = list[j]
        BY AppendProperties
      <4> QED
        BY <3>1, <3>2, <4>1, Zenon
    <3>3. /\ Log' = Append(Log, r) /\ Len(Log') = m + 1 /\ Log'[m + 1] = r
          /\ \A j \in 1 .. m : Log'[j] = Log[j]
      BY <1>9, <1>13, <2>3, AppendProperties
    <3>4. Len(Q[n + 1]) = Len(Log') - b
      BY <3>b, <3>3, <3>a
    <3>5. ASSUME NEW j \in 1 .. k + 1 PROVE Q[n + 1][j] = Log'[b + j].information
      <4>1. CASE j = k + 1
        <5>1. b + j = m + 1
          BY <3>b, <4>1
        <5> QED
          BY <1>13, <3>3, <3>a, <4>1, <5>1
      <4>2. CASE j # k + 1
        <5>1. j \in 1 .. k /\ b + j \in 1 .. m
          BY <3>b, <4>2
        <5> QED
          BY <1>11, <3>2, <3>3, <3>a, <5>1
      <4> QED
        BY <4>1, <4>2
    <3> QED
      BY <3>4, <3>5, <3>a
  <2> QED
    BY <2>1, <2>2, <2>3, RecordCases
<1>15. /\ held' # None <=> IsDouble(event) /\ ~T[n + 1]
       /\ held' # None => /\ otherpnt' = <<OtherOf(event)>>
                          /\ held'[1].information = Information(event)
  <2>1. IsDouble(event) => event \notin Unknown
    BY <1>2, PointFacts
  <2>2. <<r>> # <<>> /\ <<r>>[1] = r
    OBVIOUS
  <2>3. CASE event \in Unknown /\ ~Completes /\ held' = None
    BY <2>1, <2>3
  <2>4. CASE Completes /\ held' = None
    BY <1>5, <2>4
  <2>5. CASE /\ event \notin Unknown /\ ~Completes
             /\ IsDouble(event) => held' = <<Soe(event)>> /\ otherpnt' = <<OtherOf(event)>>
             /\ ~IsDouble(event) => held' = None
    BY <1>5, <1>12, <1>13, <2>2, <2>5 DEF None
  <2> QED
    BY <2>3, <2>4, <2>5, RecordCases
<1>16. PICK e : e = Events'
  OBVIOUS
<1>17. Agrees(e, T, Q)'
  BY <1>8, <1>9, <1>14, <1>15, <1>16 DEF Agrees
<1>18. (Pairing(e, T) /\ Listing(e, T, Q) /\ Agrees(e, T, Q))'
  BY <1>7, <1>16, <1>17
<1> QED
  BY <1>16, <1>18 DEF Made

\* ... and the last ones are of present values.
LEMMA RecordCurrent == SoeInv /\ Record => Current'
<1> SUFFICES ASSUME SoeInv, Record PROVE Current'
  OBVIOUS
<1>1. /\ pc = "record" /\ pc' = "fetch" /\ event \in Inputs
      /\ UNCHANGED <<di, queue, raw, event, begun, changes>>
  BY RecordCases
<1>2. SoeTypes /\ Log \in Seq(Rec) /\ \A i \in 1 .. Len(raw) : raw[i] \in Inputs
  BY EventsFacts DEF SoeInv, Shape
<1>3. Done' = Done + 1 /\ raw[Done + 1] = event /\ Done + 1 = Len(raw) /\ Done \in Nat
  BY RecordEventsOf, EventsFacts DEF SoeInv, Shape
<1>4. PICK own \in Obj : own = Information(event)
  BY <1>1, PointFacts
<1>5. PICK r \in Rec : /\ r = Soe(event) /\ r.information = own
                       /\ r = [information |-> own, value |-> Value(own)]
  BY <1>1, <1>2, <1>4, SoeFacts
<1>6. \A obj : Value(obj)' = Value(obj)
  BY <1>1 DEF Value
<1>7. \A obj : obj # own => (ToCome(obj) <=> ToCome(obj)')
  BY <1>1, <1>4 DEF ToCome
<1> SUFFICES ASSUME NEW i \in 1 .. Done + 1, raw[i] \notin Unknown,
                    NEW obj, obj = Information(raw[i]), ~ToCome(obj)'
             PROVE  LastIs(Log', obj, [information |-> obj, value |-> Value(obj)])
  BY <1>1, <1>3, <1>6 DEF Current
<1> DEFINE last == [information |-> obj, value |-> Value(obj)]
<1>8. last.information = obj
  OBVIOUS
<1>9. obj # own => LastIs(Log, obj, last)
  <2> SUFFICES ASSUME obj # own PROVE LastIs(Log, obj, last)
    OBVIOUS
  <2>1. i # Done + 1
    BY <1>3, <1>4
  <2>2. i \in 1 .. Done
    BY <1>3, <2>1
  <2> QED
    BY <1>7, <2>2 DEF SoeInv, Current
<1>10. obj = own => last = r
  BY <1>5
<1> HIDE DEF last
<1>11. CASE event \in Unknown /\ ~Completes /\ Log' = Log
  <2>1. obj # own
    <3>1. own = <<event>>
      BY <1>1, <1>4, <1>11, PointFacts
    <3>2. raw[i] \in Inputs
      BY <1>2, <1>3
    <3>3. CASE IsDouble(raw[i])
      <4>1. Len(obj) = 2 /\ Len(<<event>>) = 1
        BY <3>2, <3>3, PointFacts
      <4> QED
        BY <3>1, <4>1
    <3>4. CASE ~IsDouble(raw[i])
      <4>1. obj = <<raw[i]>> /\ raw[i] # event
        BY <1>11, <3>2, <3>4, PointFacts
      <4> QED
        BY <3>1, <4>1
    <3> QED
      BY <3>3, <3>4
  <2> QED
    BY <1>9, <1>11, <2>1 DEF last
<1>12. CASE /\ Completes /\ Log # <<>> /\ Log[Len(Log)].information = Information(event)
            /\ Log' = [Log EXCEPT ![Len(Log)] = Soe(event)]
  <2>1. PICK g : g = [Log EXCEPT ![Len(Log)] = r]
    OBVIOUS
  <2>2. /\ LastIs(g, own, r)
        /\ \A o, l : o # own /\ l.information = o /\ LastIs(Log, o, l) => LastIs(g, o, l)
    BY <1>2, <1>4, <1>5, <1>12, <2>1, LastReplaced
  <2>3. LastIs(g, obj, last)
    BY <1>8, <1>9, <1>10, <2>2
  <2> QED
    BY <1>5, <1>12, <2>1, <2>3 DEF last
<1>13. CASE event \notin Unknown /\ ~Completes /\ Log' = Append(Log, Soe(event))
  <2>1. CASE obj = own
    <3>1. LastIs(Append(Log, r), obj, last)
      BY <1>2, <1>5, <1>10, <2>1, LastAdded
    <3> QED
      BY <1>5, <1>13, <3>1 DEF last
  <2>2. CASE obj # own
    <3>1. LastIs(Append(Log, r), obj, last)
      BY <1>2, <1>5, <1>9, <2>2, LastKept
    <3> QED
      BY <1>5, <1>13, <3>1 DEF last
  <2> QED
    BY <2>1, <2>2
<1> QED
  BY <1>11, <1>12, <1>13, RecordCases DEF last

\* All of it.
LEMMA RecordStep == SoeInv /\ Record => SoeInv'
  BY RecordTypes, RecordMade, RecordCurrent DEF SoeInv

\* A step of another part of the task.
LEMMA SameStep == SoeInv /\ UNCHANGED vars => SoeInv'
<1> SUFFICES ASSUME SoeInv, UNCHANGED vars PROVE SoeInv'
  OBVIOUS
<1>1. UNCHANGED <<di, queue, raw, soelog, pc, event, held, otherpnt, begun, changes>>
  BY DEF vars
<1>2. SoeTypes'
  BY <1>1 DEF SoeInv, SoeTypes
<1>3. Log' = Log /\ Done' = Done
  BY <1>1 DEF Log, Done
<1>4. Events' = Events
  BY <1>1, <1>3 DEF Events
<1>5. \A obj : ToCome(obj) => ToCome(obj)'
  BY <1>1 DEF ToCome
<1>6. Made' /\ Current'
  BY <1>1, <1>2, <1>3, <1>4, <1>5, SameCall, SameLog
<1> QED
  BY <1>2, <1>6 DEF SoeInv

\* A step of FSMID_SoeApp.
LEMMA SoeStep == SoeInv /\ SoeApp => SoeInv'
  BY CallStep, FetchStep, RecordStep, ReturnStep DEF SoeApp

\* FSMID_SoeApp is only a part of what the task does in a second, and inputs change
\* while any of it runs.
THEOREM SoeInductive == TaskSpec => []SoeInv
<1>1. TaskInit => SoeInv
  BY SoeInit DEF TaskInit
<1>2. SoeInv /\ [TaskNext]_allVars => SoeInv'
  <2> SUFFICES ASSUME SoeInv, [TaskNext]_allVars PROVE SoeInv'
    OBVIOUS
  <2>1. CASE RecordEvents
    BY <2>1, SoeStep DEF RecordEvents
  <2>2. CASE InputChanges
    BY <2>2, ChangeStep DEF InputChanges
  <2>3. CASE NoEvents \/ RecordControl \/ NoControls \/ RecordMessage \/ NoMessages
    BY <2>3, SameStep DEF NoEvents, RecordControl, NoControls, RecordMessage, NoMessages
  <2>4. CASE ControlArrives \/ MessageArrives
    BY <2>4, SameStep DEF ControlArrives, MessageArrives
  <2>5. CASE UNCHANGED allVars
    BY <2>5, SameStep DEF allVars
  <2> QED
    BY <2>1, <2>2, <2>3, <2>4, <2>5 DEF TaskNext, Task
<1> QED
  BY <1>1, <1>2, PTL DEF TaskSpec

\* When FSMID_SoeApp returns, the records it made are those of the events it fetched.
THEOREM SoeRecordsOfCall == TaskSpec => []RecordsOfCall
<1>1. SoeInv => RecordsOfCall
  <2> SUFFICES ASSUME SoeInv, pc = "idle" PROVE RecordsOfCall
    BY DEF RecordsOfCall
  <2>1. PICK S, R : Pairing(Events, S) /\ Listing(Events, S, R) /\ Agrees(Events, S, R)
    BY DEF SoeInv, Made
  <2>2. Done = Len(raw) /\ Log = soelog
    BY DEF Done, Log
  <2>3. Events = SubSeq(raw, begun.raw + 1, Len(raw)) /\ Events \in Seq(Inputs)
    BY <2>2, EventsFacts DEF Events, SoeInv, Shape
  <2>4. PICK list \in Seq(Obj) : list = R[Len(Events)]
    BY <2>1, <2>3 DEF Listing
  <2>5. Expected(Events) = list
    BY <2>1, <2>3, <2>4, ObjectsUnique DEF Expected
  <2>6. PICK b \in Nat, m \in Nat : b = begun.soe /\ m = Len(soelog) /\ b <= m
    BY DEF SoeInv, SoeTypes
  <2>7. Len(list) = m - b /\ \A j \in 1 .. Len(list) : list[j] = soelog[b + j].information
    BY <2>1, <2>2, <2>4, <2>6 DEF Agrees
  <2> DEFINE records == SubSeq(soelog, b + 1, m)
  <2>8. records \in Seq(Rec) /\ Len(records) = m - b /\ \A j \in 1 .. m - b : records[j] = soelog[b + j]
    <3>1. soelog \in Seq(Rec)
      BY DEF SoeInv, SoeTypes
    <3>2. \A i \in b + 1 .. m : soelog[i] \in Rec
      BY <2>6, <3>1
    <3>3. /\ records \in Seq(Rec)
          /\ Len(records) = IF b + 1 <= m THEN m - (b + 1) + 1 ELSE 0
          /\ \A i \in 1 .. m - (b + 1) + 1 : records[i] = soelog[(b + 1) + i - 1]
      BY SMTT(30), <3>2, SubSeqProperties
    <3> HIDE DEF records
    <3>4. m - (b + 1) + 1 = m - b /\ \A i \in 1 .. m - b : (b + 1) + i - 1 = b + i
      OBVIOUS
    <3>5. Len(records) = m - b
      BY <2>6, <3>3
    <3> QED
      BY <3>3, <3>4, <3>5
  <2>9. [i \in 1 .. Len(records) |-> records[i].information] = list
    <3> HIDE DEF records
    <3>1. \A i \in 1 .. Len(list) : list[i] = records[i].information
      BY <2>7, <2>8
    <3>2. Len(records) = Len(list)
      BY <2>7, <2>8
    <3>3. list = [i \in 1 .. Len(list) |-> list[i]]
      OBVIOUS
    <3>4. [i \in 1 .. Len(list) |-> list[i]] = [i \in 1 .. Len(list) |-> records[i].information]
      BY <3>1
    <3> QED
      BY <3>2, <3>3, <3>4
  <2> QED
    BY <2>3, <2>5, <2>6, <2>9 DEF RecordsOfCall
<1> QED
  BY <1>1, SoeInductive, PTL

\* With every event recorded, the last record of an object is of its present value.
THEOREM SoeLastIsCurrent == TaskSpec => []LastRecordIsCurrent
<1>1. SoeInv => LastRecordIsCurrent
  <2> SUFFICES ASSUME SoeInv, pc = "idle", queue = <<>>,
                      NEW i \in 1 .. Len(raw), raw[i] \notin Unknown, NEW obj, obj = Information(raw[i])
               PROVE  \E k \in 1 .. Len(soelog) :
                          /\ soelog[k] = [information |-> obj, value |-> Value(obj)]
                          /\ \A j \in k + 1 .. Len(soelog) : soelog[j].information # obj
    BY Zenon DEF LastRecordIsCurrent
  <2>1. Done = Len(raw) /\ Log = soelog
    BY DEF Done, Log
  <2>2. ~ToCome(obj)
    BY DEF ToCome
  <2>3. LastIs(soelog, obj, [information |-> obj, value |-> Value(obj)])
    BY <2>1, <2>2 DEF SoeInv, Current
  <2> QED
    BY <2>3 DEF LastIs
<1> QED
  BY <1>1, SoeInductive, PTL

-----------------------------------------------------------------------------
(* FSMID_CoApp *)

Control == [pnt : Controls \cup Strangers, val : {0, 1}]
ControlRec == [information : Controls \cup {Garbage}, value : {0, 1}]
ControlInv ==
    /\ trd \in Seq(Control) /\ rawTrd \in Seq(Control) /\ logCo \in Seq(ControlRec)
    /\ inf \in Controls \cup {Garbage}
    /\ ControlsAreTheirOwn

\* Every control of a configured point is recorded under its own object.
THEOREM ControlsInductive == TaskSpec => []ControlsAreTheirOwn
<1>1. TaskInit => ControlInv
  BY DEF TaskInit, ControlInv, ControlsAreTheirOwn
<1>2. ControlInv /\ [TaskNext]_allVars => ControlInv'
  <2> SUFFICES ASSUME ControlInv, [TaskNext]_allVars PROVE ControlInv'
    OBVIOUS
  <2>1. ASSUME UNCHANGED <<trd, rawTrd, logCo>>, inf' \in Controls \cup {Garbage} PROVE ControlInv'
    BY <2>1 DEF ControlInv, ControlsAreTheirOwn
  <2>2. CASE RecordEvents
    BY <2>1, <2>2 DEF RecordEvents, ControlInv
  <2>3. CASE NoEvents \/ NoControls
    BY <2>1, <2>3 DEF NoEvents, NoControls
  <2>4. CASE RecordMessage \/ NoMessages
    BY <2>1, <2>4 DEF RecordMessage, NoMessages, otherVars, ControlInv
  <2>5. CASE InputChanges \/ MessageArrives \/ UNCHANGED allVars
    BY <2>1, <2>5 DEF InputChanges, MessageArrives, allVars, otherVars, ControlInv
  <2>6. CASE ControlArrives
    <3>1. PICK p \in Controls \cup Strangers, v \in {0, 1} : trd' = Append(trd, [pnt |-> p, val |-> v])
      BY <2>6 DEF ControlArrives
    <3>2. UNCHANGED <<rawTrd, logCo, inf>>
      BY <2>6 DEF ControlArrives
    <3>3. trd' \in Seq(Control)
      BY <3>1 DEF ControlInv, Control
    <3> QED
      BY <3>2, <3>3 DEF ControlInv, ControlsAreTheirOwn
  <2>7. CASE RecordControl
    <3>1. trd \in Seq(Control) /\ rawTrd \in Seq(Control) /\ logCo \in Seq(ControlRec) /\ trd # <<>>
      BY <2>7 DEF RecordControl, ControlInv
    <3>2. PICK c \in Control : c = Head(trd)
      BY <3>1
    <3>3. c.pnt \in Controls \cup Strangers /\ c.val \in {0, 1}
      BY DEF Control
    <3>4. inf' \in Controls \cup {Garbage} /\ (c.pnt \in Controls => inf' = c.pnt)
      BY <2>7, <3>2 DEF RecordControl, Searched, ControlInv
    <3>5. PICK r \in ControlRec : r = [information |-> inf', value |-> c.val]
      BY <3>3, <3>4 DEF ControlRec
    <3>7. trd' = Tail(trd) /\ rawTrd' = Append(rawTrd, c) /\ logCo' = Append(logCo, r)
      BY <2>7, <3>2, <3>5 DEF RecordControl
    <3>8. trd' \in Seq(Control)
      BY <3>1, <3>7
    <3>9. PICK n \in Nat : n = Len(logCo) /\ n = Len(rawTrd)
      BY <3>1 DEF ControlInv, ControlsAreTheirOwn
    <3>10. /\ rawTrd' \in Seq(Control) /\ Len(rawTrd') = n + 1 /\ rawTrd'[n + 1] = c
           /\ \A k \in 1 .. n : rawTrd'[k] = rawTrd[k]
      BY <3>1, <3>7, <3>9, AppendProperties
    <3>11. /\ logCo' \in Seq(ControlRec) /\ Len(logCo') = n + 1 /\ logCo'[n + 1] = r
           /\ \A k \in 1 .. n : logCo'[k] = logCo[k]
      <4>1. logCo' = Append(logCo, r) /\ logCo \in Seq(ControlRec) /\ n = Len(logCo)
        BY <3>1, <3>7, <3>9
      <4> QED
        BY <4>1, AppendProperties
    <3>12. \A k \in 1 .. n + 1 :
               rawTrd'[k].pnt \in Controls =>
                   logCo'[k] = [information |-> rawTrd'[k].pnt, value |-> rawTrd'[k].val]
      <4> SUFFICES ASSUME NEW k \in 1 .. n + 1, rawTrd'[k].pnt \in Controls
                   PROVE  logCo'[k] = [information |-> rawTrd'[k].pnt, value |-> rawTrd'[k].val]
        OBVIOUS
      <4>1. CASE k = n + 1
        BY <3>4, <3>5, <3>10, <3>11, <4>1
      <4>2. CASE k \in 1 .. n
        BY <3>9, <3>10, <3>11, <4>2 DEF ControlInv, ControlsAreTheirOwn
      <4> QED
        BY <4>1, <4>2
    <3>13. ControlsAreTheirOwn'
      BY <3>10, <3>11, <3>12 DEF ControlsAreTheirOwn
    <3> QED
      BY <3>4, <3>8, <3>10, <3>11, <3>13 DEF ControlInv
  <2> QED
    BY <2>2, <2>3, <2>4, <2>5, <2>6, <2>7 DEF TaskNext, Task
<1>3. ControlInv => ControlsAreTheirOwn
  BY DEF ControlInv
<1> QED
  BY <1>1, <1>2, <1>3, PTL DEF TaskSpec

=============================================================================
