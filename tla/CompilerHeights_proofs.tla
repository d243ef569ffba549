---------------------- MODULE CompilerHeights_proofs ----------------------
(***************************************************************************)
(* Every node leaves one value on the operand stack, on every path.  The   *)
(* argument follows the code while it grows: there is an assignment of     *)
(* heights to its addresses that every instruction and every patched jump  *)
(* respects, and each waiting activation knows the height at which its     *)
(* node began.  In a finished program the heights so assigned are those    *)
(* that Height computes.                                                   *)
(***************************************************************************)
EXTENDS Compiler_proofs, WellFoundedInduction

USE DEF Jumps

-----------------------------------------------------------------------------
(* Induction *)

\* A set of natural numbers has a least element.
LEMMA LeastNatural ==
  ASSUME NEW T, T \subseteq Nat, T # {}
  PROVE  \E x \in T : \A y \in T : x <= y
  <1>. DEFINE R == {ss \in Nat \X Nat : ss[1] < ss[2]}
  <1>1. IsWellFoundedOn(R, Nat)
    BY NatLessThanWellFounded DEF OpToRel
  <1>. HIDE DEF R
  <1>2. \E x \in T : \A y \in T : <<y, x>> \notin R
    BY <1>1, WFMin
  <1>3. \A x, y \in T : <<y, x>> \notin R => x <= y
    BY DEF R
  <1>. QED  BY <1>2, <1>3

-----------------------------------------------------------------------------
(* Heights *)

\* What an instruction does to the height, if a Jof pops.
Lift(i) == Effect(i, -1)

Branches == {"Goto", "Reset"}

\* Something other than the instruction before it leads to t.
Reached(code, own, starts, t) ==
  \/ t \in starts
  \/ \E a \in Addr(code) : code[a + 1].op = "Ldf" /\ code[a + 1].arg = t
  \/ \E j \in Addr(code) \ own :
       code[j + 1].op \in Jumps /\ j < t /\ code[j + 1].arg = t

\* The heights around the instruction at a agree with it: with the next
\* address, with the function that it makes a value of, and with the one value
\* that a Reset returns.
Falls(code, own, starts, h, a) ==
  /\ code[a + 1].op \notin Branches => h[a + 1] = h[a] + Lift(code[a + 1])
  /\ code[a + 1].op \in Branches =>
       \/ code[a + 1].op = "Reset" /\ h[a + 1] = h[a]
       \/ Reached(code, own, starts, a + 1)
  /\ code[a + 1].op = "Ldf" =>
       a > 0 /\ h[a - 1] = 1 /\ code[a + 1].arg \in 0 .. Len(code) /\ h[code[a + 1].arg] = 0
  /\ code[a + 1].op = "Reset" => h[a] = 1

\* And with the address it jumps to.
Carries(code, h, a) ==
  code[a + 1].op \in Jumps =>
    code[a + 1].arg \in 0 .. Len(code) /\ h[code[a + 1].arg] = h[a] + Lift(code[a + 1])

\* The jumps of own are still to be patched, and the functions that begin at
\* starts still to be completed.
Flow(code, own, starts, h) ==
  /\ h \in [0 .. Len(code) -> Nat]
  /\ h[0] = 0
  /\ \A a \in Addr(code) : Falls(code, own, starts, h, a)
  /\ \A a \in Addr(code) \ own : Carries(code, h, a)
  /\ \A s \in starts : s \in 0 .. Len(code) /\ h[s] = 0

LEMMA LiftJump ==
  ASSUME NEW i, NEW j, i.op = j.op, i.op \in Jumps
  PROVE  Lift(i) = Lift(j)
  BY DEF Lift, Effect

-----------------------------------------------------------------------------
(* Code that grows *)

\* The heights stay.
Same(n, h, h2) == \A a \in 0 .. n : h2[a] = h[a]

LEMMA ReachedKept ==
  ASSUME NEW code, NEW code2, NEW own, NEW own2, NEW changed,
         Keeps(code, code2, own, own2, changed),
         NEW starts, NEW starts2,
         \A s \in starts : \/ s \in starts2
                           \/ \E a \in Addr(code2) :
                                code2[a + 1].op = "Ldf" /\ code2[a + 1].arg = s,
         NEW t, Reached(code, own, starts, t)
  PROVE  Reached(code2, own2, starts2, t)
  <1>1. Addr(code) \subseteq Addr(code2)
    BY DEF Keeps, Addr
  <1>2. CASE t \in starts
    BY <1>2 DEF Reached
  <1>3. ASSUME NEW a \in Addr(code), code[a + 1].op = "Ldf", code[a + 1].arg = t
        PROVE  Reached(code2, own2, starts2, t)
    <2>1. code2[a + 1] = code[a + 1]
      BY <1>3 DEF Keeps
    <2>. QED  BY <1>1, <1>3, <2>1 DEF Reached
  <1>4. ASSUME NEW j \in Addr(code) \ own, code[j + 1].op \in Jumps, j < t, code[j + 1].arg = t
        PROVE  Reached(code2, own2, starts2, t)
    <2>1. code2[j + 1] = code[j + 1] /\ j \notin own2
      BY <1>4 DEF Keeps
    <2>. QED  BY <1>1, <1>4, <2>1 DEF Reached
  <1>. QED  BY <1>2, <1>3, <1>4 DEF Reached

LEMMA FallsKept ==
  ASSUME NEW code, NEW code2, NEW own, NEW own2, NEW changed,
         Keeps(code, code2, own, own2, changed), Extends(code, code2),
         NEW starts, NEW starts2,
         \A s \in starts : \/ s \in starts2
                           \/ \E a \in Addr(code2) :
                                code2[a + 1].op = "Ldf" /\ code2[a + 1].arg = s,
         NEW h, NEW h2, Same(Len(code), h, h2),
         NEW a \in Addr(code), Falls(code, own, starts, h, a)
  PROVE  Falls(code2, own2, starts2, h2, a)
  <1>. DEFINE n == Len(code)  n2 == Len(code2)
  <1>1. n \in Nat /\ n2 \in Nat /\ n <= n2 /\ a \in 0 .. (n - 1)
    BY DEF Keeps, Addr
  <1>2. code2[a + 1].op = code[a + 1].op
    BY DEF Extends
  <1>3. Lift(code2[a + 1]) = Lift(code[a + 1])
    <2>1. CASE a \in changed
      BY <1>2, <2>1, LiftJump DEF Keeps
    <2>2. CASE a \notin changed
      BY <2>2 DEF Keeps
    <2>. QED  BY <2>1, <2>2
  <1>4. h2[a] = h[a] /\ h2[a + 1] = h[a + 1]
    <2>1. a \in 0 .. n /\ a + 1 \in 0 .. n
      BY <1>1
    <2>. QED  BY <2>1 DEF Same
  <1>5. Reached(code, own, starts, a + 1) => Reached(code2, own2, starts2, a + 1)
    BY ReachedKept
  <1>6. ASSUME code[a + 1].op = "Ldf"
        PROVE  a > 0 /\ h2[a - 1] = 1 /\ code2[a + 1].arg \in 0 .. n2 /\ h2[code2[a + 1].arg] = 0
    <2>. DEFINE t == code[a + 1].arg
    <2>1. a > 0 /\ h[a - 1] = 1 /\ t \in 0 .. n /\ h[t] = 0
      BY <1>6 DEF Falls
    <2>2. code2[a + 1] = code[a + 1]
      BY <1>6 DEF Keeps
    <2>. HIDE DEF t
    <2>3. a - 1 \in 0 .. n /\ t \in 0 .. n2
      BY <1>1, <2>1
    <2>4. h2[a - 1] = 1 /\ h2[t] = 0
      BY <2>1, <2>3 DEF Same
    <2>. QED  BY <2>1, <2>2, <2>3, <2>4 DEF t
  <1>. HIDE DEF n, n2
  <1>. QED  BY <1>2, <1>3, <1>4, <1>5, <1>6 DEF Falls, n2

LEMMA CarriesKept ==
  ASSUME NEW code, NEW code2, NEW own, NEW own2, NEW changed,
         Keeps(code, code2, own, own2, changed),
         NEW h, NEW h2, Same(Len(code), h, h2),
         NEW a \in Addr(code) \ own, Carries(code, h, a)
  PROVE  Carries(code2, h2, a)
  <1>. DEFINE n == Len(code)  n2 == Len(code2)  t == code[a + 1].arg
  <1>1. n \in Nat /\ n2 \in Nat /\ n <= n2 /\ a \in 0 .. n
    BY DEF Keeps, Addr
  <1>2. code2[a + 1] = code[a + 1]
    BY DEF Keeps
  <1>3. code[a + 1].op \in Jumps => t \in 0 .. n /\ h[t] = h[a] + Lift(code[a + 1])
    BY DEF Carries
  <1>4. h2[a] = h[a] /\ (t \in 0 .. n => h2[t] = h[t])
    BY <1>1 DEF Same
  <1>. HIDE DEF n, n2, t
  <1>5. t \in 0 .. n => t \in 0 .. n2
    BY <1>1
  <1>. QED  BY <1>2, <1>3, <1>4, <1>5 DEF Carries, t, n2

\* What has to be shown of code that has grown: its new instructions, and the
\* jumps that were patched.
LEMMA FlowKept ==
  ASSUME NEW code, NEW code2, NEW own, NEW own2, NEW changed,
         Keeps(code, code2, own, own2, changed), Extends(code, code2),
         NEW starts, NEW starts2,
         \A s \in starts : \/ s \in starts2
                           \/ \E a \in Addr(code2) :
                                code2[a + 1].op = "Ldf" /\ code2[a + 1].arg = s,
         NEW h, NEW h2, Same(Len(code), h, h2), h2 \in [0 .. Len(code2) -> Nat],
         Flow(code, own, starts, h),
         \A s \in starts2 : s \in 0 .. Len(code2) /\ h2[s] = 0,
         \A a \in Addr(code2) \ Addr(code) : Falls(code2, own2, starts2, h2, a),
         \A a \in Addr(code2) \ own2 : a \notin Addr(code) \/ a \in own => Carries(code2, h2, a)
  PROVE  Flow(code2, own2, starts2, h2)
  <1>1. \A a \in Addr(code) : Falls(code2, own2, starts2, h2, a)
    BY FallsKept DEF Flow
  <1>2. \A a \in Addr(code) \ own : Carries(code2, h2, a)
    BY CarriesKept DEF Flow
  <1>3. h2[0] = 0
    <2>1. 0 \in 0 .. Len(code)
      BY DEF Keeps
    <2>. QED  BY <2>1 DEF Same, Flow
  <1>. QED  BY <1>1, <1>2, <1>3 DEF Flow
\* The heights with one more.
Higher(h, n, v) == [a \in 0 .. (n + 1) |-> IF a <= n THEN h[a] ELSE v]

LEMMA HigherFacts ==
  ASSUME NEW n \in Nat, NEW h \in [0 .. n -> Nat], NEW v \in Nat
  PROVE  /\ Higher(h, n, v) \in [0 .. (n + 1) -> Nat]
         /\ Same(n, h, Higher(h, n, v))
         /\ Higher(h, n, v)[n + 1] = v
  BY DEF Higher, Same

\* An instruction is added after which the height is v.  It may take over a
\* start, as Ldf does, and begin a function after it.
Pushing(code, i, own, own2, starts, starts2, h, v) ==
  /\ code \in Seq(Instruction) /\ i \in Instruction /\ v \in Nat
  /\ Flow(code, own, starts, h)
  /\ own \subseteq own2 /\ own2 \subseteq own \cup {Len(code)}
  /\ \A s \in starts : s \in starts2 \/ (i.op = "Ldf" /\ i.arg = s)
  /\ \A s \in starts2 : s \in starts \/ (s = Len(code) + 1 /\ v = 0)
  /\ i.op \notin Branches => v = h[Len(code)] + Lift(i)
  /\ i.op \in Branches =>
       (i.op = "Reset" /\ v = h[Len(code)]) \/ Len(code) + 1 \in starts2
  /\ i.op = "Ldf" => Len(code) > 0 /\ h[Len(code) - 1] = 1 /\ i.arg \in starts
  /\ i.op = "Reset" => h[Len(code)] = 1
  /\ i.op \in Jumps => Len(code) \in own2

LEMMA FlowPush ==
  ASSUME NEW code, NEW i, NEW own, NEW own2, NEW starts, NEW starts2, NEW h, NEW v,
         Pushing(code, i, own, own2, starts, starts2, h, v),
         NEW h2, h2 = Higher(h, Len(code), v)
  PROVE  /\ Flow(Append(code, i), own2, starts2, h2)
         /\ Same(Len(code), h, h2)
         /\ h2[Len(code) + 1] = v
  <1>. DEFINE n == Len(code)  code2 == Append(code, i)
  <1>0. /\ code \in Seq(Instruction) /\ i \in Instruction /\ v \in Nat
        /\ Flow(code, own, starts, h)
        /\ own \subseteq own2 /\ own2 \subseteq own \cup {Len(code)}
        /\ \A s \in starts : s \in starts2 \/ (i.op = "Ldf" /\ i.arg = s)
        /\ \A s \in starts2 : s \in starts \/ (s = Len(code) + 1 /\ v = 0)
        /\ i.op \notin Branches => v = h[Len(code)] + Lift(i)
        /\ i.op \in Branches =>
             (i.op = "Reset" /\ v = h[Len(code)]) \/ Len(code) + 1 \in starts2
        /\ i.op = "Ldf" => Len(code) > 0 /\ h[Len(code) - 1] = 1 /\ i.arg \in starts
        /\ i.op = "Reset" => h[Len(code)] = 1
        /\ i.op \in Jumps => Len(code) \in own2
    BY DEF Pushing
  <1>. USE <1>0
  <1>1. /\ n \in Nat /\ code2 \in Seq(Instruction) /\ Len(code2) = n + 1
        /\ \A a \in Addr(code) : code2[a + 1] = code[a + 1]
        /\ code2[n + 1] = i
        /\ Addr(code2) = Addr(code) \cup {n}
        /\ n \notin Addr(code)
        /\ n \in Addr(code2)
    <2>1. Len(code) \in Nat
      OBVIOUS
    <2>. HIDE DEF code2
    <2>2. Addr(code2) = Addr(code) \cup {n}
      BY AppendFacts DEF code2
    <2>3. /\ code2 \in Seq(Instruction) /\ Len(code2) = n + 1
          /\ \A a \in Addr(code) : code2[a + 1] = code[a + 1]
          /\ code2[n + 1] = i
          /\ n \notin Addr(code)
      BY AppendFacts DEF code2
    <2>. QED  BY <2>1, <2>2, <2>3
  <1>2. h \in [0 .. n -> Nat]
    BY DEF Flow
  <1>3. /\ h2 \in [0 .. (n + 1) -> Nat]
        /\ Same(n, h, h2)
        /\ h2[n + 1] = v
    <2>1. h2 = Higher(h, n, v) /\ n \in Nat /\ v \in Nat
      BY <1>1
    <2>. HIDE DEF n, code2
    <2>2. /\ Higher(h, n, v) \in [0 .. (n + 1) -> Nat]
          /\ Same(n, h, Higher(h, n, v))
          /\ Higher(h, n, v)[n + 1] = v
      BY ONLY <1>2, <2>1, HigherFacts
    <2>. QED  BY ONLY <2>1, <2>2
  <1>4. Extends(code, code2)
    BY ExtendsAppend
  <1>. HIDE DEF n, code2
  <1>5. Len(code) = n
    BY DEF n
  <1>6. Keeps(code, code2, own, own2, {})
    <2>1. own2 \cap Addr(code) \subseteq own
      BY <1>1, <1>5
    <2>2. Len(code) <= Len(code2)
      BY <1>1, <1>5
    <2>. QED  BY <1>1, <2>1, <2>2 DEF Keeps
  <1>7. \A s \in starts : \/ s \in starts2
                          \/ \E a \in Addr(code2) :
                               code2[a + 1].op = "Ldf" /\ code2[a + 1].arg = s
    BY <1>1
  <1>8. \A s \in starts2 : s \in 0 .. (n + 1) /\ h2[s] = 0
    <2>1. \A s \in starts : s \in 0 .. n /\ h[s] = 0
      BY <1>5 DEF Flow
    <2>2. \A s \in starts : s \in 0 .. (n + 1) /\ h2[s] = 0
      BY <1>1, <1>3, <2>1 DEF Same
    <2>3. n + 1 \in 0 .. (n + 1)
      BY <1>1
    <2>. QED  BY <1>3, <1>5, <2>2, <2>3
  <1>9. Falls(code2, own2, starts2, h2, n)
    <2>1. h2[n] = h[n] /\ h2[n + 1] = v
      BY <1>1, <1>3 DEF Same
    <2>2. i.op = "Ldf" =>
            n > 0 /\ h2[n - 1] = 1 /\ i.arg \in 0 .. (n + 1) /\ h2[i.arg] = 0
      <3>1. ASSUME i.op = "Ldf" PROVE n > 0 /\ h[n - 1] = 1 /\ i.arg \in starts
        BY <1>5, <3>1
      <3>2. i.op = "Ldf" => i.arg \in 0 .. n /\ h[i.arg] = 0
        BY <1>5, <3>1 DEF Flow
      <3>3. i.op = "Ldf" => n - 1 \in 0 .. n
        BY <1>1, <3>1
      <3>4. i.op = "Ldf" => h2[n - 1] = 1 /\ h2[i.arg] = 0
        BY <1>3, <3>1, <3>2, <3>3 DEF Same
      <3>5. 0 .. n \subseteq 0 .. (n + 1)
        BY <1>1
      <3>. QED  BY <3>1, <3>2, <3>4, <3>5
    <2>3. n + 1 \in starts2 => Reached(code2, own2, starts2, n + 1)
      BY DEF Reached
    <2>. QED  BY <1>1, <1>5, <2>1, <2>2, <2>3 DEF Falls
  <1>10. \A a \in Addr(code2) \ own2 :
           a \notin Addr(code) \/ a \in own => Carries(code2, h2, a)
    <2>1. ASSUME n \notin own2 PROVE Carries(code2, h2, n)
      BY <1>1, <1>5, <2>1 DEF Carries
    <2>. QED  BY <1>1, <2>1
  <1>11. Flow(code2, own2, starts2, h2)
    <2>1. Same(Len(code), h, h2) /\ h2 \in [0 .. Len(code2) -> Nat]
      BY <1>1, <1>3, <1>5
    <2>2. \A s \in starts2 : s \in 0 .. Len(code2) /\ h2[s] = 0
      BY <1>1, <1>8
    <2>3. \A a \in Addr(code2) \ Addr(code) : Falls(code2, own2, starts2, h2, a)
      BY <1>1, <1>9
    <2>. QED  BY <1>4, <1>6, <1>7, <1>10, <2>1, <2>2, <2>3, FlowKept
  <1>. QED  BY <1>3, <1>5, <1>11 DEF code2, n

\* The jump at j is patched to the end of the code.
LEMMA FlowPatch ==
  ASSUME NEW code \in Seq(Instruction), NEW own, NEW starts, NEW h,
         Flow(code, own, starts, h),
         NEW j \in own, j \in Addr(code), code[j + 1].op \in Jumps,
         h[Len(code)] = h[j] + Lift(code[j + 1])
  PROVE  Flow(patchJump(code, j, Len(code)), own \ {j}, starts, h)
  <1>. DEFINE n == Len(code)  code2 == patchJump(code, j, n)  own2 == own \ {j}
  <1>1. /\ n \in Nat /\ code2 \in Seq(Instruction) /\ Len(code2) = n
        /\ \A a \in Addr(code) \ {j} : code2[a + 1] = code[a + 1]
        /\ code2[j + 1].op = code[j + 1].op
        /\ code2[j + 1].arg = n
    BY PatchFacts
  <1>2. Extends(code, code2)
    BY <1>1, ExtendsPatch
  <1>3. Keeps(code, code2, own, own2, {j})
    BY <1>1 DEF Keeps
  <1>4. Addr(code2) = Addr(code)
    BY <1>1 DEF Addr
  <1>5. h \in [0 .. n -> Nat] /\ Same(n, h, h)
    BY DEF Flow, Same
  <1>6. Carries(code2, h, j)
    <2>1. Lift(code2[j + 1]) = Lift(code[j + 1])
      BY <1>1, LiftJump
    <2>2. n \in 0 .. n
      BY <1>1
    <2>. QED  BY <1>1, <2>1, <2>2 DEF Carries
  <1>7. \A s \in starts : s \in 0 .. n /\ h[s] = 0
    BY DEF Flow
  <1>8. \A a \in Addr(code2) \ own2 : a \notin Addr(code) \/ a \in own => Carries(code2, h, a)
    BY <1>4, <1>6
  <1>. HIDE DEF code2, own2
  <1>. QED
    <2>1. /\ Same(Len(code), h, h) /\ h \in [0 .. Len(code2) -> Nat]
          /\ \A s \in starts : s \in 0 .. Len(code2) /\ h[s] = 0
          /\ \A a \in Addr(code2) \ Addr(code) : Falls(code2, own2, starts, h, a)
      BY <1>1, <1>4, <1>5, <1>7
    <2>2. Flow(code2, own2, starts, h)
      BY <1>2, <1>3, <1>8, <2>1, FlowKept
    <2>. QED  BY <2>2 DEF code2, own2

\* A Goto or a Reset is added, and the jump at j patched to the address after
\* it: that is where the height comes from.
Turning(code, i, j, own, own2, starts, h, v) ==
  /\ code \in Seq(Instruction) /\ i \in Instruction /\ v \in Nat
  /\ Flow(code, own, starts, h)
  /\ own \subseteq Addr(code)
  /\ i.op \in Branches
  /\ i.op = "Reset" => h[Len(code)] = 1
  /\ j \in own /\ code[j + 1].op \in Jumps
  /\ v = h[j] + Lift(code[j + 1])
  /\ own2 \ {Len(code)} = own \ {j}
  /\ \/ Len(code) \in own2
     \/ i.op = "Reset"
     \/ i.arg \in 0 .. Len(code) /\ h[i.arg] = h[Len(code)]

LEMMA FlowTurn ==
  ASSUME NEW code, NEW i, NEW j, NEW own, NEW own2, NEW starts, NEW h, NEW v,
         Turning(code, i, j, own, own2, starts, h, v),
         NEW h2, h2 = Higher(h, Len(code), v)
  PROVE  /\ Flow(patchJump(Append(code, i), j, Len(code) + 1), own2, starts, h2)
         /\ Same(Len(code), h, h2)
         /\ h2[Len(code) + 1] = v
  <1>. DEFINE n == Len(code)  longer == Append(code, i)  code2 == patchJump(longer, j, n + 1)
  <1>0. /\ code \in Seq(Instruction) /\ i \in Instruction /\ v \in Nat
        /\ Flow(code, own, starts, h)
        /\ own \subseteq Addr(code)
        /\ i.op \in Branches
        /\ i.op = "Reset" => h[Len(code)] = 1
        /\ j \in own /\ code[j + 1].op \in Jumps
        /\ v = h[j] + Lift(code[j + 1])
        /\ own2 \ {Len(code)} = own \ {j}
        /\ \/ Len(code) \in own2
           \/ i.op = "Reset"
           \/ i.arg \in 0 .. Len(code) /\ h[i.arg] = h[Len(code)]
    BY DEF Turning
  <1>. USE <1>0
  <1>1. /\ n \in Nat /\ longer \in Seq(Instruction) /\ Len(longer) = n + 1
        /\ \A a \in Addr(code) : longer[a + 1] = code[a + 1]
        /\ longer[n + 1] = i
        /\ Addr(longer) = Addr(code) \cup {n}
        /\ n \notin Addr(code)
        /\ n \in Addr(longer) /\ j \in Addr(code) /\ j \in Addr(longer) /\ j # n
    <2>1. Len(code) \in Nat
      OBVIOUS
    <2>. HIDE DEF longer
    <2>2. Addr(longer) = Addr(code) \cup {n}
      BY AppendFacts DEF longer
    <2>3. /\ longer \in Seq(Instruction) /\ Len(longer) = n + 1
          /\ \A a \in Addr(code) : longer[a + 1] = code[a + 1]
          /\ longer[n + 1] = i
          /\ n \notin Addr(code)
      BY AppendFacts DEF longer
    <2>4. j \in Addr(code) /\ j # n
      BY <2>3
    <2>. QED  BY <2>1, <2>2, <2>3, <2>4
  <1>. HIDE DEF longer
  <1>2. /\ code2 \in Seq(Instruction) /\ Len(code2) = n + 1
        /\ \A a \in Addr(longer) \ {j} : code2[a + 1] = longer[a + 1]
        /\ code2[j + 1].op = longer[j + 1].op
        /\ code2[j + 1].arg = n + 1
    BY <1>1, PatchFacts
  <1>3. h \in [0 .. n -> Nat]
    BY DEF Flow
  <1>4. /\ h2 \in [0 .. (n + 1) -> Nat]
        /\ Same(n, h, h2)
        /\ h2[n + 1] = v
    <2>1. h2 = Higher(h, n, v)
      OBVIOUS
    <2>. HIDE DEF n, code2
    <2>2. n \in Nat
      BY <1>1
    <2>3. /\ Higher(h, n, v) \in [0 .. (n + 1) -> Nat]
          /\ Same(n, h, Higher(h, n, v))
          /\ Higher(h, n, v)[n + 1] = v
      BY <1>3, <2>2, HigherFacts
    <2>. QED  BY <2>1, <2>3
  <1>5. Len(code) = n /\ j < n /\ j \in 0 .. n /\ n \in 0 .. n
    BY <1>1 DEF Addr
  <1>. HIDE DEF n, code2
  <1>6. /\ \A a \in Addr(code) \ {j} : code2[a + 1] = code[a + 1]
        /\ code2[n + 1] = i
        /\ code2[j + 1].op = code[j + 1].op
        /\ Addr(code2) = Addr(code) \cup {n}
    <2>1. Addr(code2) = Addr(longer)
      BY <1>1, <1>2 DEF Addr
    <2>. QED  BY <1>1, <1>2, <2>1
  <1>7. j \notin own2
    BY <1>1, <1>5
  <1>8. Keeps(code, code2, own, own2, {j})
    <2>1. own2 \cap Addr(code) \subseteq own
      BY <1>1, <1>5
    <2>2. Len(code) <= Len(code2)
      BY <1>1, <1>2, <1>5
    <2>. QED  BY <1>2, <1>6, <2>1, <2>2 DEF Keeps
  <1>9. Extends(code, code2)
    BY <1>6, <1>8 DEF Extends, Keeps
  <1>10. \A s \in starts : s \in 0 .. (n + 1) /\ h2[s] = 0
    <2>1. \A s \in starts : s \in 0 .. n /\ h[s] = 0
      BY <1>5 DEF Flow
    <2>2. 0 .. n \subseteq 0 .. (n + 1)
      BY <1>1
    <2>3. \A s \in starts : h2[s] = h[s]
      BY <1>4, <2>1 DEF Same
    <2>. QED  BY <2>1, <2>2, <2>3
  <1>11. Lift(code2[j + 1]) = Lift(code[j + 1])
    BY <1>6, LiftJump
  <1>12. Carries(code2, h2, j)
    <2>1. h2[j] = h[j] /\ n + 1 \in 0 .. (n + 1)
      BY <1>1, <1>4, <1>5 DEF Same
    <2>. QED  BY <1>2, <1>4, <1>11, <2>1 DEF Carries
  <1>13. Falls(code2, own2, starts, h2, n)
    <2>1. Reached(code2, own2, starts, n + 1)
      <3>1. j \in Addr(code2) \ own2 /\ code2[j + 1].op \in Jumps /\ j < n + 1
        BY <1>1, <1>5, <1>6, <1>7
      <3>. QED  BY <1>2, <3>1 DEF Reached
    <2>2. h2[n] = h[n]
      BY <1>4, <1>5 DEF Same
    <2>. QED  BY <1>5, <1>6, <2>1, <2>2 DEF Falls, Branches
  <1>14. n \notin own2 => Carries(code2, h2, n)
    <2>1. CASE i.op = "Reset"
      BY <1>6, <2>1 DEF Carries
    <2>2. CASE i.op = "Goto" /\ i.arg \in 0 .. n /\ h[i.arg] = h[n]
      <3>. DEFINE t == i.arg
      <3>1. t \in 0 .. n /\ h[t] = h[n]
        BY <2>2
      <3>. HIDE DEF t
      <3>2. t \in 0 .. (n + 1)
        BY <1>1, <3>1
      <3>3. h2[t] = h[t] /\ h2[n] = h[n]
        BY <1>4, <1>5, <3>1 DEF Same
      <3>4. h2[i.arg] = h2[n] /\ i.arg \in 0 .. (n + 1)
        BY <3>1, <3>2, <3>3 DEF t
      <3>5. Lift(i) = 0
        BY <2>2 DEF Lift, Effect
      <3>6. h2[n] \in Nat
        BY <1>1, <1>4
      <3>7. h2[n] = h2[n] + Lift(i)
        BY <3>5, <3>6
      <3>. QED  BY <1>2, <1>6, <3>4, <3>7 DEF Carries
    <2>. QED  BY <1>5, <2>1, <2>2 DEF Branches
  <1>15. \A a \in Addr(code2) \ own2 :
           a \notin Addr(code) \/ a \in own => Carries(code2, h2, a)
    BY <1>1, <1>5, <1>6, <1>12, <1>14
  <1>16. Flow(code2, own2, starts, h2)
    <2>1. /\ Same(Len(code), h, h2) /\ h2 \in [0 .. Len(code2) -> Nat]
          /\ \A s \in starts : s \in 0 .. Len(code2) /\ h2[s] = 0
          /\ \A a \in Addr(code2) \ Addr(code) : Falls(code2, own2, starts, h2, a)
      BY <1>2, <1>4, <1>5, <1>6, <1>10, <1>13
    <2>. QED  BY <1>8, <1>9, <1>15, <2>1, FlowKept
  <1>. QED  BY <1>4, <1>5, <1>16 DEF code2, longer, n

-----------------------------------------------------------------------------
(* What the waiting activations know *)

Function(a) == a.site = "fun"

Alternative(a) == a.site = "cond alt"

Repeating(a) == a.site \in {"while pred", "while body"}

\* Not in a plain program.
Logical(a) == a.site \in {"cast", "and first", "and second", "or first", "or second"}

\* The functions whose bodies are being compiled begin at these addresses.
Starts(stk) == {stk[k].start : k \in {l \in DOMAIN stk : Function(stk[l])}}

\* The values of the node that are on the stack before its operand.
Offset(a) ==
  IF a.site = "app" THEN a.arity - a.left
  ELSE IF a.site \in {"binary second", "compound"} THEN 1 ELSE 0

\* The node began at height low, and the operand that it waits for at high.
Awaits(code, a, h, low, high) ==
  /\ ~Logical(a)
  /\ high = IF Function(a) THEN 0 ELSE low + Offset(a)
  /\ a.site = "app" => a.left < a.arity
  /\ Owns(a) =>
       /\ a.jump \in Addr(code)
       /\ code[a.jump + 1].op \in Jumps
       /\ h[a.jump] + Lift(code[a.jump + 1]) = IF Alternative(a) THEN low + 1 ELSE low
  /\ Repeating(a) => a.start \in 0 .. Len(code) /\ h[a.start] = low
  /\ a.site = "return" => low = 0

Waits(code, stk, h, b) ==
  /\ b \in [0 .. Len(stk) -> Nat]
  /\ b[0] = 0
  /\ \A k \in DOMAIN stk : Awaits(code, stk[k], h, b[k - 1], b[k])

Held(code, stk, own, starts, h, b) ==
  Flow(code, own, starts, h) /\ Waits(code, stk, h, b)

\* The code and the stack agree, and the node that is being compiled has left
\* extra values so far.
Upright(code, stk, extra) ==
  \E h, b : Held(code, stk, Own(stk), Starts(stk), h, b) /\ h[Len(code)] = b[Len(stk)] + extra

LEMMA AwaitsKept ==
  ASSUME NEW code \in Seq(Instruction), NEW code2 \in Seq(Instruction), Extends(code, code2),
         NEW h, NEW h2, Same(Len(code), h, h2),
         NEW a, NEW low, NEW high, Awaits(code, a, h, low, high)
  PROVE  Awaits(code2, a, h2, low, high)
  <1>1. Len(code) \in Nat /\ Len(code2) \in Nat /\ Len(code) <= Len(code2)
    BY DEF Extends
  <1>2. ASSUME Owns(a)
        PROVE  /\ a.jump \in Addr(code2)
               /\ code2[a.jump + 1].op \in Jumps
               /\ h2[a.jump] = h[a.jump]
               /\ Lift(code2[a.jump + 1]) = Lift(code[a.jump + 1])
    <2>1. a.jump \in Addr(code) /\ code[a.jump + 1].op \in Jumps
      BY <1>2 DEF Awaits
    <2>. DEFINE j == a.jump
    <2>. HIDE DEF j
    <2>2. j \in Addr(code) /\ code[j + 1].op \in Jumps
      BY <2>1 DEF j
    <2>3. code2[j + 1].op = code[j + 1].op
      BY <2>2 DEF Extends
    <2>4. j \in Addr(code2) /\ j \in 0 .. Len(code)
      BY <1>1, <2>2 DEF Addr
    <2>5. h2[j] = h[j]
      BY <2>4 DEF Same
    <2>6. Lift(code2[j + 1]) = Lift(code[j + 1])
      BY <2>2, <2>3, LiftJump
    <2>. QED  BY <2>2, <2>3, <2>4, <2>5, <2>6 DEF j
  <1>3. ASSUME Repeating(a) PROVE a.start \in 0 .. Len(code2) /\ h2[a.start] = low
    <2>. DEFINE t == a.start
    <2>1. t \in 0 .. Len(code) /\ h[t] = low
      BY <1>3 DEF Awaits
    <2>. HIDE DEF t
    <2>2. t \in 0 .. Len(code2)
      BY <1>1, <2>1
    <2>3. h2[t] = h[t]
      BY <2>1 DEF Same
    <2>. QED  BY <2>1, <2>2, <2>3 DEF t
  <1>. QED  BY <1>2, <1>3, Zenon DEF Awaits

LEMMA WaitsKept ==
  ASSUME NEW code \in Seq(Instruction), NEW code2 \in Seq(Instruction), Extends(code, code2),
         NEW h, NEW h2, Same(Len(code), h, h2),
         NEW stk, NEW b, Waits(code, stk, h, b)
  PROVE  Waits(code2, stk, h2, b)
  <1>1. \A k \in DOMAIN stk : Awaits(code2, stk[k], h2, b[k - 1], b[k])
    BY AwaitsKept DEF Waits
  <1>. QED  BY <1>1 DEF Waits

LEMMA StartsAppend ==
  ASSUME NEW stk \in Seq(Activation), NEW a \in Activation
  PROVE  Starts(Append(stk, a)) = Starts(stk) \cup (IF Function(a) THEN {a.start} ELSE {})
  <1>. DEFINE longer == Append(stk, a)
  <1>1. /\ DOMAIN longer = DOMAIN stk \cup {Len(stk) + 1}
        /\ \A k \in DOMAIN stk : longer[k] = stk[k]
        /\ longer[Len(stk) + 1] = a
    BY Longer
  <1>. HIDE DEF longer
  <1>2. ASSUME NEW s \in Starts(longer)
        PROVE  s \in Starts(stk) \cup (IF Function(a) THEN {a.start} ELSE {})
    <2>1. PICK k \in DOMAIN longer : Function(longer[k]) /\ s = longer[k].start
      BY <1>2 DEF Starts
    <2>2. CASE k \in DOMAIN stk
      BY <1>1, <2>1, <2>2 DEF Starts
    <2>3. CASE k = Len(stk) + 1
      BY <1>1, <2>1, <2>3
    <2>. QED  BY <1>1, <2>2, <2>3
  <1>3. ASSUME NEW s \in Starts(stk) PROVE s \in Starts(longer)
    BY <1>1, <1>3 DEF Starts
  <1>4. Function(a) => a.start \in Starts(longer)
    BY <1>1 DEF Starts
  <1>5. Starts(longer) = Starts(stk) \cup (IF Function(a) THEN {a.start} ELSE {})
    BY <1>2, <1>3, <1>4
  <1>. QED  BY <1>5 DEF longer

\* An operand of a will begin at height high.
Waiting(code, stk, h, b, a, high) ==
  /\ stk \in Seq(Activation) /\ a \in Activation /\ high \in Nat
  /\ Waits(code, stk, h, b)
  /\ Awaits(code, a, h, b[Len(stk)], high)

LEMMA WaitsPush ==
  ASSUME NEW code, NEW stk, NEW h, NEW b, NEW a, NEW high, Waiting(code, stk, h, b, a, high)
  PROVE  /\ Waits(code, Append(stk, a), h, Higher(b, Len(stk), high))
         /\ Higher(b, Len(stk), high)[Len(Append(stk, a))] = high
  <1>. DEFINE longer == Append(stk, a)  n == Len(stk)  b2 == Higher(b, n, high)
  <1>0. /\ stk \in Seq(Activation) /\ a \in Activation /\ high \in Nat
        /\ Waits(code, stk, h, b)
        /\ Awaits(code, a, h, b[Len(stk)], high)
    BY DEF Waiting
  <1>1. /\ DOMAIN longer = DOMAIN stk \cup {n + 1}
        /\ \A k \in DOMAIN stk : longer[k] = stk[k]
        /\ longer[n + 1] = a
        /\ n \in Nat
        /\ Len(longer) = n + 1
        /\ DOMAIN stk = 1 .. n
    <2>1. Len(longer) = n + 1 /\ n \in Nat /\ DOMAIN stk = 1 .. n
      BY <1>0
    <2>. QED  BY <1>0, <2>1, Longer
  <1>2. /\ b \in [0 .. n -> Nat] /\ b[0] = 0
        /\ \A k \in DOMAIN stk : Awaits(code, stk[k], h, b[k - 1], b[k])
        /\ Awaits(code, a, h, b[n], high)
    BY <1>0 DEF Waits
  <1>. HIDE DEF longer, n
  <1>3. /\ b2 \in [0 .. (n + 1) -> Nat]
        /\ Same(n, b, b2)
        /\ b2[n + 1] = high
    BY <1>0, <1>1, <1>2, HigherFacts
  <1>. HIDE DEF b2
  <1>4. ASSUME NEW k \in DOMAIN stk PROVE Awaits(code, longer[k], h, b2[k - 1], b2[k])
    <2>1. k \in 0 .. n /\ k - 1 \in 0 .. n
      BY <1>1
    <2>2. b2[k] = b[k] /\ b2[k - 1] = b[k - 1]
      BY <1>3, <2>1 DEF Same
    <2>. QED  BY <1>1, <1>2, <2>2
  <1>5. Awaits(code, longer[n + 1], h, b2[(n + 1) - 1], b2[n + 1])
    <2>1. (n + 1) - 1 = n /\ n \in 0 .. n
      BY <1>1
    <2>2. b2[n] = b[n]
      BY <1>3, <2>1 DEF Same
    <2>3. b2[(n + 1) - 1] = b[n]
      BY <2>1, <2>2
    <2>4. longer[n + 1] = a /\ b2[n + 1] = high
      BY <1>1, <1>3
    <2>5. Awaits(code, a, h, b[n], high)
      BY <1>2
    <2>. QED  BY <2>3, <2>4, <2>5, Zenon
  <1>6. b2[0] = 0
    <2>1. 0 \in 0 .. n
      BY <1>1
    <2>. QED  BY <1>2, <1>3, <2>1 DEF Same
  <1>7. Waits(code, longer, h, b2)
    <2>1. \A k \in DOMAIN longer : Awaits(code, longer[k], h, b2[k - 1], b2[k])
      BY <1>1, <1>4, <1>5
    <2>2. b2 \in [0 .. Len(longer) -> Nat]
      BY <1>1, <1>3
    <2>. QED  BY <1>6, <2>1, <2>2 DEF Waits
  <1>8. b2[Len(longer)] = high
    BY <1>1, <1>3
  <1>. QED  BY <1>7, <1>8 DEF b2, longer, n

LEMMA WaitsPop ==
  ASSUME NEW code, NEW stk \in Seq(Activation), NEW a \in Activation, NEW h, NEW b,
         Waits(code, Append(stk, a), h, b)
  PROVE  \E b2 : /\ Waits(code, stk, h, b2)
                 /\ b2[Len(stk)] \in Nat
                 /\ b[Len(Append(stk, a))] \in Nat
                 /\ Awaits(code, a, h, b2[Len(stk)], b[Len(Append(stk, a))])
  <1>. DEFINE longer == Append(stk, a)  n == Len(stk)  b2 == [k \in 0 .. n |-> b[k]]
  <1>1. /\ DOMAIN longer = DOMAIN stk \cup {n + 1}
        /\ \A k \in DOMAIN stk : longer[k] = stk[k]
        /\ longer[n + 1] = a
        /\ n \in Nat
        /\ Len(longer) = n + 1
        /\ DOMAIN stk = 1 .. n
    <2>1. Len(longer) = n + 1 /\ n \in Nat /\ DOMAIN stk = 1 .. n
      OBVIOUS
    <2>. QED  BY <2>1, Longer
  <1>2. b \in [0 .. Len(longer) -> Nat] /\ b[0] = 0
        /\ \A k \in DOMAIN longer : Awaits(code, longer[k], h, b[k - 1], b[k])
    BY DEF Waits
  <1>. HIDE DEF longer, n
  <1>3. b \in [0 .. (n + 1) -> Nat]
    BY <1>1, <1>2
  <1>4. /\ b2 \in [0 .. n -> Nat]
        /\ \A k \in 0 .. n : b2[k] = b[k]
        /\ b2[0] = 0 /\ b2[n] \in Nat /\ b[n + 1] \in Nat
    BY <1>1, <1>2, <1>3
  <1>. HIDE DEF b2
  <1>5. ASSUME NEW k \in DOMAIN stk PROVE Awaits(code, stk[k], h, b2[k - 1], b2[k])
    <2>1. k \in 0 .. n /\ k - 1 \in 0 .. n
      BY <1>1
    <2>2. b2[k] = b[k] /\ b2[k - 1] = b[k - 1]
      BY <1>4, <2>1
    <2>. QED  BY <1>1, <1>2, <2>2
  <1>6. Awaits(code, a, h, b2[n], b[n + 1])
    <2>1. (n + 1) - 1 = n /\ n \in 0 .. n
      BY <1>1
    <2>2. b2[n] = b[n]
      BY <1>4, <2>1
    <2>. QED  BY <1>1, <1>2, <2>1, <2>2
  <1>7. Waits(code, stk, h, b2)
    BY <1>4, <1>5 DEF Waits, n
  <1>8. b[Len(longer)] = b[n + 1]
    BY <1>1
  <1>. QED  BY <1>4, <1>6, <1>7, <1>8 DEF longer, n

-----------------------------------------------------------------------------
(* Steps that neither add nor patch a jump *)

Level(i) == i \in Instruction /\ i.op \notin Jumps \cup {"Ldf", "Reset"}

\* What a step adds raises the operand stack by d.
Raises(d) ==
  \/ d = 0 /\ instructions' = instructions
  \/ \E i : Level(i) /\ d = Lift(i) /\ instructions' = Append(instructions, i)
  \/ \E i, j : /\ Level(i) /\ d = Lift(i)
               /\ Level(j) /\ Lift(j) = 0
               /\ instructions' = instructions \o <<i, j>>

LEMMA HeldLevel ==
  ASSUME NEW code \in Seq(Instruction), NEW stk, NEW own, NEW starts, NEW h, NEW b,
         Held(code, stk, own, starts, h, b),
         NEW i, Level(i), h[Len(code)] + Lift(i) \in Nat
  PROVE  \E h2 : /\ Held(Append(code, i), stk, own, starts, h2, b)
                 /\ Same(Len(code), h, h2)
                 /\ h2[Len(Append(code, i))] = h[Len(code)] + Lift(i)
  <1>. DEFINE code2 == Append(code, i)  v == h[Len(code)] + Lift(i)  h2 == Higher(h, Len(code), v)
  <1>1. Flow(code, own, starts, h) /\ Waits(code, stk, h, b) /\ v \in Nat /\ i \in Instruction
    BY DEF Held, Level
  <1>2. i.op \notin Jumps /\ i.op # "Ldf" /\ i.op # "Reset"
    BY DEF Level
  <1>3. i.op \notin Branches
    BY <1>2 DEF Branches
  <1>4. h2 = Higher(h, Len(code), v) /\ v = h[Len(code)] + Lift(i)
    OBVIOUS
  <1>. HIDE DEF h2, v
  <1>5. /\ Flow(Append(code, i), own, starts, h2)
        /\ Same(Len(code), h, h2)
        /\ h2[Len(code) + 1] = v
    <2>1. Pushing(code, i, own, own, starts, starts, h, v)
      BY <1>1, <1>2, <1>3, <1>4 DEF Pushing
    <2>. QED  BY <1>4, <2>1, FlowPush
  <1>6. Waits(code2, stk, h2, b)
    BY <1>1, <1>5, AppendFacts, ExtendsAppend, WaitsKept
  <1>7. Len(Append(code, i)) = Len(code) + 1
    BY <1>1, AppendFacts
  <1>8. /\ Held(Append(code, i), stk, own, starts, h2, b)
        /\ h2[Len(Append(code, i))] = h[Len(code)] + Lift(i)
    BY <1>4, <1>5, <1>6, <1>7 DEF Held
  <1>. QED  BY <1>5, <1>8

\* A Reset, where the function has one value.
LEMMA HeldReset ==
  ASSUME NEW code \in Seq(Instruction), NEW stk, NEW own, NEW starts, NEW h, NEW b,
         Held(code, stk, own, starts, h, b), h[Len(code)] = 1
  PROVE  \E h2 : /\ Held(Append(code, Instr("Reset")), stk, own, starts, h2, b)
                 /\ h2[Len(Append(code, Instr("Reset")))] = 1
  <1>. DEFINE i == Instr("Reset")  code2 == Append(code, i)  h2 == Higher(h, Len(code), 1)
  <1>1. Flow(code, own, starts, h) /\ Waits(code, stk, h, b)
    BY DEF Held
  <1>2. i \in Instruction /\ i.op = "Reset"
    BY InstrType DEF Opcodes
  <1>3. i.op \in Branches /\ i.op \notin Jumps /\ i.op # "Ldf"
    BY <1>2 DEF Branches
  <1>4. h2 = Higher(h, Len(code), 1)
    OBVIOUS
  <1>. HIDE DEF h2, i
  <1>5. /\ Flow(code2, own, starts, h2)
        /\ Same(Len(code), h, h2)
        /\ h2[Len(code) + 1] = 1
    <2>1. Pushing(code, i, own, own, starts, starts, h, 1)
      BY <1>1, <1>2, <1>3 DEF Pushing
    <2>. QED  BY <1>4, <2>1, FlowPush
  <1>6. Waits(code2, stk, h2, b)
    BY <1>1, <1>2, <1>5, AppendFacts, ExtendsAppend, WaitsKept
  <1>7. Len(code2) = Len(code) + 1
    BY <1>2, AppendFacts
  <1>8. Held(code2, stk, own, starts, h2, b) /\ h2[Len(code2)] = 1
    BY <1>5, <1>6, <1>7 DEF Held
  <1>. QED  BY <1>8 DEF i

LEMMA HeldRaises ==
  ASSUME instructions \in Seq(Instruction), NEW stk, NEW own, NEW starts, NEW h, NEW b,
         Held(instructions, stk, own, starts, h, b),
         NEW d, Raises(d), h[Len(instructions)] + d \in Nat
  PROVE  /\ instructions' \in Seq(Instruction)
         /\ \E h2 : /\ Held(instructions', stk, own, starts, h2, b)
                    /\ h2[Len(instructions')] = h[Len(instructions)] + d
  <1>0. h[Len(instructions)] \in Nat
    <2>1. Len(instructions) \in 0 .. Len(instructions)
      OBVIOUS
    <2>. QED  BY <2>1 DEF Held, Flow
  <1>1. CASE d = 0 /\ instructions' = instructions
    BY <1>0, <1>1
  <1>2. ASSUME NEW i, Level(i), d = Lift(i), instructions' = Append(instructions, i)
        PROVE  /\ instructions' \in Seq(Instruction)
               /\ \E h2 : /\ Held(instructions', stk, own, starts, h2, b)
                          /\ h2[Len(instructions')] = h[Len(instructions)] + d
    <2>1. i \in Instruction /\ h[Len(instructions)] + Lift(i) \in Nat
      BY <1>2 DEF Level
    <2>2. instructions' \in Seq(Instruction)
      BY <1>2, <2>1
    <2>. QED  BY <1>2, <2>1, <2>2, HeldLevel
  <1>3. ASSUME NEW i, NEW j, Level(i), d = Lift(i), Level(j), Lift(j) = 0,
               instructions' = instructions \o <<i, j>>
        PROVE  /\ instructions' \in Seq(Instruction)
               /\ \E h2 : /\ Held(instructions', stk, own, starts, h2, b)
                          /\ h2[Len(instructions')] = h[Len(instructions)] + d
    <2>. DEFINE first == Append(instructions, i)
    <2>1. i \in Instruction /\ j \in Instruction /\ h[Len(instructions)] + Lift(i) \in Nat
      BY <1>3 DEF Level
    <2>2. first \in Seq(Instruction) /\ instructions' = Append(first, j)
      BY <1>3, <2>1, ConcatTwo
    <2>3. PICK h1 : /\ Held(first, stk, own, starts, h1, b)
                    /\ h1[Len(first)] = h[Len(instructions)] + d
      BY <1>3, <2>1, HeldLevel
    <2>. HIDE DEF first
    <2>4. h1[Len(first)] \in Nat /\ h1[Len(first)] + Lift(j) = h[Len(instructions)] + d
      BY <1>3, <2>3
    <2>5. h1[Len(first)] + Lift(j) \in Nat
      BY <2>4
    <2>6. \E h2 : /\ Held(Append(first, j), stk, own, starts, h2, b)
                  /\ h2[Len(Append(first, j))] = h1[Len(first)] + Lift(j)
      BY <1>3, <2>2, <2>3, <2>5, HeldLevel
    <2>7. instructions' \in Seq(Instruction)
      BY <2>1, <2>2
    <2>. QED  BY <2>2, <2>4, <2>6, <2>7
  <1>. QED  BY <1>1, <1>2, <1>3 DEF Raises

\* An activation that is to patch nothing and to jump back nowhere.
Simple(a) ==
  /\ a \in Activation
  /\ ~Owns(a) /\ ~Repeating(a) /\ ~Logical(a)
  /\ a.site = "app" => a.left < a.arity
  /\ a.site # "return"

LEMMA SimpleOffset ==
  ASSUME NEW a, a \in Activation, a.site = "app" => a.left < a.arity
  PROVE  Offset(a) \in Nat
  <1>. DEFINE m == a.left  n == a.arity
  <1>1. m \in Nat /\ n \in Nat
    BY DEF Activation
  <1>2. a.site = "app" => m < n
    OBVIOUS
  <1>. HIDE DEF m, n
  <1>3. a.site = "app" => n - m \in Nat
    BY <1>1, <1>2
  <1>4. CASE a.site = "app"
    BY <1>3, <1>4 DEF Offset, m, n
  <1>5. CASE a.site # "app"
    BY <1>5 DEF Offset
  <1>. QED  BY <1>4, <1>5

LEMMA HeldTop ==
  ASSUME NEW code \in Seq(Instruction), NEW stk \in Seq(Activation), NEW own, NEW starts, NEW h, NEW b,
         Held(code, stk, own, starts, h, b)
  PROVE  h[Len(code)] \in Nat /\ b[Len(stk)] \in Nat
  <1>1. Len(code) \in 0 .. Len(code) /\ Len(stk) \in 0 .. Len(stk)
    OBVIOUS
  <1>. QED  BY <1>1 DEF Held, Flow, Waits

LEMMA CallsUpright ==
  ASSUME instructions \in Seq(Instruction), NEW stk \in Seq(Activation), NEW h, NEW b,
         Held(instructions, stk, Own(stk), Starts(stk), h, b),
         NEW a, Simple(a) \/ (a = At("return") /\ b[Len(stk)] = 0), NEW d, Raises(d),
         h[Len(instructions)] + d = b[Len(stk)] + Offset(a)
  PROVE  Upright(instructions', Append(stk, a), 0)
  <1>. DEFINE high == b[Len(stk)] + Offset(a)  longer == Append(stk, a)
  <1>0. /\ a \in Activation
        /\ ~Owns(a) /\ ~Repeating(a) /\ ~Logical(a) /\ ~Function(a)
        /\ a.site = "app" => a.left < a.arity
        /\ a.site = "return" => b[Len(stk)] = 0
    <2>1. CASE Simple(a)
      BY <2>1 DEF Simple, Owns, Function, PatchSites
    <2>2. CASE a = At("return") /\ b[Len(stk)] = 0
      <3>1. At("return") \in Activation /\ At("return").site = "return"
        BY AtType DEF Sites
      <3>. QED  BY <2>2, <3>1 DEF Owns, Repeating, Logical, Function, PatchSites
    <2>. QED  BY <2>1, <2>2
  <1>1. Offset(a) \in Nat /\ b[Len(stk)] \in Nat /\ a \in Activation
    BY <1>0, SimpleOffset, HeldTop
  <1>2. high \in Nat
    BY <1>1
  <1>3. PICK h2 : /\ Held(instructions', stk, Own(stk), Starts(stk), h2, b)
                  /\ h2[Len(instructions')] = high
    BY <1>2, HeldRaises
  <1>4. Awaits(instructions', a, h2, b[Len(stk)], high)
    BY <1>0 DEF Awaits
  <1>. HIDE DEF high
  <1>5. /\ Waits(instructions', longer, h2, Higher(b, Len(stk), high))
        /\ Higher(b, Len(stk), high)[Len(longer)] = high
    <2>. DEFINE code2 == instructions'
    <2>1. Waits(code2, stk, h2, b) /\ Awaits(code2, a, h2, b[Len(stk)], high)
      BY <1>3, <1>4 DEF Held
    <2>. HIDE DEF code2
    <2>. QED
      <3>1. /\ Waits(code2, Append(stk, a), h2, Higher(b, Len(stk), high))
            /\ Higher(b, Len(stk), high)[Len(Append(stk, a))] = high
        <4>1. Waiting(code2, stk, h2, b, a, high)
          BY <1>1, <1>2, <2>1 DEF Waiting
        <4>. QED  BY <4>1, WaitsPush
      <3>. QED  BY <3>1 DEF code2
  <1>6. Own(longer) = Own(stk) /\ Starts(longer) = Starts(stk)
    BY <1>0, OwnAppend, StartsAppend
  <1>. HIDE DEF longer
  <1>7. Held(instructions', longer, Own(longer), Starts(longer), h2, Higher(b, Len(stk), high))
    BY <1>3, <1>5, <1>6 DEF Held
  <1>8. h2[Len(instructions')] = Higher(b, Len(stk), high)[Len(longer)] + 0
    BY <1>2, <1>3, <1>5
  <1>9. Upright(instructions', longer, 0)
    BY <1>7, <1>8 DEF Upright
  <1>. QED  BY <1>9 DEF longer

LEMMA ReturnsUpright ==
  ASSUME instructions \in Seq(Instruction), NEW stk \in Seq(Activation), NEW h, NEW b,
         Held(instructions, stk, Own(stk), Starts(stk), h, b),
         NEW d, Raises(d),
         h[Len(instructions)] + d = b[Len(stk)] + 1
  PROVE  Upright(instructions', stk, 1)
  <1>1. b[Len(stk)] \in Nat
    BY HeldTop
  <1>2. h[Len(instructions)] + d \in Nat
    BY <1>1
  <1>3. PICK h2 : /\ Held(instructions', stk, Own(stk), Starts(stk), h2, b)
                  /\ h2[Len(instructions')] = h[Len(instructions)] + d
    BY <1>2, HeldRaises
  <1>. QED  BY <1>3 DEF Upright

-----------------------------------------------------------------------------
(* The invariant *)

Heights ==
  plain =>
    /\ mode = "compile" => Upright(instructions, stack, 0)
    /\ mode = "return" => Upright(instructions, stack, 1)
    /\ mode = "done" =>
         \E h : /\ Flow(instructions, {}, {}, h)
                /\ Len(instructions) > 0
                /\ h[Len(instructions) - 1] = 1

\* No node of the function waits with an operand on the stack: it began where
\* the operands of its own are.  There is no first activation to put one there.
LEMMA NothingHeld ==
  ASSUME stack \in Seq(Activation), NEW h, NEW b, Waits(instructions, stack, h, b), ~Abandons
  PROVE  b[Len(stack)] = 0
  <1>. DEFINE n == Len(stack)
              Bad == {k \in 0 .. n : b[k] # 0 /\ \A l \in (k + 1) .. n : stack[l].site # "fun"}
  <1>1. n \in Nat /\ DOMAIN stack = 1 .. n
    OBVIOUS
  <1>2. /\ b \in [0 .. n -> Nat] /\ b[0] = 0
        /\ \A k \in 1 .. n : Awaits(instructions, stack[k], h, b[k - 1], b[k])
    BY DEF Waits
  <1>3. ASSUME NEW k \in Bad, \A y \in Bad : k <= y PROVE FALSE
    <2>1. k \in 1 .. n /\ b[k] # 0 /\ \A l \in (k + 1) .. n : stack[l].site # "fun"
      BY <1>1, <1>2, <1>3
    <2>. DEFINE p == k - 1  a == stack[k]
    <2>2. p \in 0 .. n /\ p < k /\ p + 1 = k
      BY <1>1, <2>1
    <2>3. b[k] = IF Function(a) THEN 0 ELSE b[p] + Offset(a)
      BY <1>2, <2>1 DEF Awaits
    <2>4. a.site # "fun" /\ b[k] = b[p] + Offset(a)
      BY <2>1, <2>3 DEF Function
    <2>5. \A l \in k .. n : stack[l].site # "fun"
      <3>. HIDE DEF n, Bad
      <3>1. \A l \in k .. n : l = k \/ l \in (k + 1) .. n
        BY <1>1, <2>1
      <3>. QED  BY <2>1, <2>4, <3>1
    <2>6. b[p] = 0
      <3>1. p \notin Bad
        <4>. HIDE DEF Bad, p
        <4>. QED  BY <1>1, <1>3, <2>1, <2>2
      <3>. HIDE DEF p
      <3>. QED  BY <2>2, <2>5, <3>1
    <2>7. Offset(a) # 0
      <3>. HIDE DEF p, a, n
      <3>1. Offset(a) = 0 => b[k] = 0
        BY <2>4, <2>6
      <3>. QED  BY <2>1, <3>1
    <2>8. a.site \in {"app", "binary second", "compound"}
      <3>. HIDE DEF a
      <3>. QED  BY <2>7 DEF Offset
    <2>. QED  BY <1>1, <2>1, <2>5, <2>8 DEF Abandons
  <1>4. Bad = {}
    <2>1. Bad \subseteq Nat
      OBVIOUS
    <2>. HIDE DEF Bad
    <2>. QED  BY <1>3, <2>1, LeastNatural
  <1>5. n \in 0 .. n /\ (n + 1) .. n = {}
    BY <1>1
  <1>. QED  BY <1>4, <1>5

LEMMA ChosenHeld ==
  ASSUME IInv, Heights, NEW kind, Node(kind), plain'
  PROVE  /\ instructions \in Seq(Instruction)
         /\ stack \in Seq(Activation)
         /\ Own(stack) \subseteq Addr(instructions)
         /\ kind \notin {"logic", "type_cast"}
         /\ \E h, b : /\ Held(instructions, stack, Own(stack), Starts(stack), h, b)
                      /\ h[Len(instructions)] = b[Len(stack)]
                      /\ b[Len(stack)] \in Nat
                      /\ kind = "return_statement" => b[Len(stack)] = 0
  <1>1. /\ instructions \in Seq(Instruction) /\ stack \in Seq(Activation)
        /\ Settled(instructions, stack)
    BY Chosen
  <1>2. /\ mode = "compile" /\ plain /\ kind \notin {"logic", "type_cast"}
        /\ kind = "return_statement" => ~Abandons
    BY Zenon DEF Node
  <1>3. PICK h, b : /\ Held(instructions, stack, Own(stack), Starts(stack), h, b)
                    /\ h[Len(instructions)] = b[Len(stack)] + 0
    BY <1>2 DEF Heights, Upright
  <1>4. b[Len(stack)] \in Nat
    BY <1>1, <1>3, HeldTop
  <1>5. h[Len(instructions)] = b[Len(stack)]
    BY <1>3, <1>4
  <1>6. Own(stack) \subseteq Addr(instructions)
    BY <1>1 DEF Settled, Frame, Sound
  <1>7. kind = "return_statement" => b[Len(stack)] = 0
    BY <1>1, <1>2, <1>3, NothingHeld DEF Held
  <1>. QED  BY <1>1, <1>2, <1>3, <1>4, <1>5, <1>6, <1>7

LEMMA ResumedHeld ==
  ASSUME IInv, Heights, NEW site, Resume(site), plain'
  PROVE  /\ instructions \in Seq(Instruction)
         /\ callers \in Seq(Activation)
         /\ top \in Activation
         /\ top.site = site
         /\ \E h, b, high :
              /\ Held(instructions, callers,
                      Own(callers) \cup (IF Owns(top) THEN {top.jump} ELSE {}),
                      Starts(callers) \cup (IF Function(top) THEN {top.start} ELSE {}), h, b)
              /\ Awaits(instructions, top, h, b[Len(callers)], high)
              /\ h[Len(instructions)] = high + 1
              /\ high \in Nat
              /\ b[Len(callers)] \in Nat
  <1>1. /\ instructions \in Seq(Instruction) /\ callers \in Seq(Activation)
        /\ top \in Activation /\ top.site = site
    BY Resumed
  <1>2. mode = "return" /\ plain /\ stack # <<>>
    BY Zenon DEF Resume
  <1>3. stack = Append(callers, top)
    <2>1. stack \in Seq(Activation)
      BY DEF IInv, TypeOK
    <2>. QED  BY <1>2, <2>1 DEF callers, top
  <1>4. PICK h, b : /\ Held(instructions, stack, Own(stack), Starts(stack), h, b)
                    /\ h[Len(instructions)] = b[Len(stack)] + 1
    BY <1>2 DEF Heights, Upright
  <1>. DEFINE f == callers  a == top  longer == Append(f, a)
  <1>5. f \in Seq(Activation) /\ a \in Activation /\ stack = longer
    BY <1>1, <1>3
  <1>. HIDE DEF f, a
  <1>6. PICK b2 : /\ Waits(instructions, f, h, b2)
                  /\ b2[Len(f)] \in Nat
                  /\ b[Len(longer)] \in Nat
                  /\ Awaits(instructions, a, h, b2[Len(f)], b[Len(longer)])
    BY <1>4, <1>5, WaitsPop DEF Held
  <1>7. /\ Own(longer) = Own(f) \cup (IF Owns(a) THEN {a.jump} ELSE {})
        /\ Starts(longer) = Starts(f) \cup (IF Function(a) THEN {a.start} ELSE {})
    BY <1>5, OwnAppend, StartsAppend
  <1>. HIDE DEF longer
  <1>8. Held(instructions, f, Own(longer), Starts(longer), h, b2)
    BY <1>4, <1>5, <1>6 DEF Held
  <1>9. \E h1, b1, high :
              /\ Held(instructions, f,
                      Own(f) \cup (IF Owns(a) THEN {a.jump} ELSE {}),
                      Starts(f) \cup (IF Function(a) THEN {a.start} ELSE {}), h1, b1)
              /\ Awaits(instructions, a, h1, b1[Len(f)], high)
              /\ h1[Len(instructions)] = high + 1
              /\ high \in Nat
              /\ b1[Len(f)] \in Nat
    BY <1>4, <1>5, <1>6, <1>7, <1>8
  <1>. QED  BY <1>1, <1>9 DEF f, a

\* What a step that does not end the compilation has to show.
LEMMA Rising ==
  ASSUME mode' \in {"compile", "return", "error"},
         plain' /\ mode' = "compile" => Upright(instructions', stack', 0),
         plain' /\ mode' = "return" => Upright(instructions', stack', 1)
  PROVE  Heights'
  BY DEF Heights

LEMMA NodeCallsUp ==
  ASSUME IInv, Heights, NEW kind, Node(kind), NEW a, Simple(a), Raises(Offset(a)), Call(a)
  PROVE  Heights'
  <1>1. mode' = "compile" /\ stack' = Append(stack, a)
    BY DEF Call
  <1>2. ASSUME plain' PROVE Upright(instructions', stack', 0)
    BY <1>1, <1>2, ChosenHeld, CallsUpright
  <1>. QED  BY <1>1, <1>2, Rising

LEMMA NodeReturnsUp ==
  ASSUME IInv, Heights, NEW kind, Node(kind), Raises(1), Return
  PROVE  Heights'
  <1>1. mode' = "return" /\ stack' = stack
    BY DEF Return
  <1>2. ASSUME plain' PROVE Upright(instructions', stack', 1)
    BY <1>1, <1>2, ChosenHeld, ReturnsUpright
  <1>. QED  BY <1>1, <1>2, Rising

\* For an activation that patches nothing.
LEMMA ResumedSimple ==
  ASSUME IInv, Heights, NEW site, Resume(site), site \notin PatchSites, plain'
  PROVE  /\ instructions \in Seq(Instruction)
         /\ callers \in Seq(Activation)
         /\ top \in Activation
         /\ top.site = site
         /\ \E h, b : /\ Held(instructions, callers, Own(callers), Starts(callers), h, b)
                      /\ h[Len(instructions)] = b[Len(callers)] + Offset(top) + 1
                      /\ b[Len(callers)] \in Nat
                      /\ Awaits(instructions, top, h, b[Len(callers)], b[Len(callers)] + Offset(top))
  <1>1. /\ instructions \in Seq(Instruction)
        /\ callers \in Seq(Activation)
        /\ top \in Activation
        /\ top.site = site
    BY ResumedHeld
  <1>2. ~Owns(top) /\ ~Function(top)
    BY <1>1 DEF Owns, Function, PatchSites
  <1>3. PICK h, b, high :
              /\ Held(instructions, callers,
                      Own(callers) \cup (IF Owns(top) THEN {top.jump} ELSE {}),
                      Starts(callers) \cup (IF Function(top) THEN {top.start} ELSE {}), h, b)
              /\ Awaits(instructions, top, h, b[Len(callers)], high)
              /\ h[Len(instructions)] = high + 1
              /\ high \in Nat
              /\ b[Len(callers)] \in Nat
    BY ResumedHeld
  <1>4. Own(callers) \cup (IF Owns(top) THEN {top.jump} ELSE {}) = Own(callers)
        /\ Starts(callers) \cup (IF Function(top) THEN {top.start} ELSE {}) = Starts(callers)
    BY <1>2
  <1>5. high = b[Len(callers)] + Offset(top)
    BY <1>2, <1>3 DEF Awaits
  <1>6. h[Len(instructions)] = b[Len(callers)] + Offset(top) + 1
    BY <1>3, <1>5
  <1>. QED  BY <1>1, <1>3, <1>4, <1>5, <1>6

LEMMA ContinuesUp ==
  ASSUME IInv, Heights, NEW site, Resume(site), site \notin PatchSites,
         NEW a, Simple(a), Continue(a),
         NEW d \in Int, Raises(d), top.site # "app" \/ top.left < top.arity => Offset(top) + 1 + d = Offset(a)
  PROVE  Heights'
  <1>1. mode' = "compile" /\ stack' = Append(callers, a)
    BY DEF Continue
  <1>2. ASSUME plain' PROVE Upright(instructions', stack', 0)
    <2>1. PICK h, b : /\ Held(instructions, callers, Own(callers), Starts(callers), h, b)
                      /\ h[Len(instructions)] = b[Len(callers)] + Offset(top) + 1
                      /\ b[Len(callers)] \in Nat
                      /\ Awaits(instructions, top, h, b[Len(callers)], b[Len(callers)] + Offset(top))
      BY <1>2, ResumedSimple
    <2>2. /\ instructions \in Seq(Instruction)
          /\ callers \in Seq(Activation)
          /\ top \in Activation
      BY <1>2, ResumedSimple
    <2>3. top.site = "app" => top.left < top.arity
      BY <2>1 DEF Awaits
    <2>4. Offset(top) \in Nat
      BY <2>2, <2>3, SimpleOffset
    <2>5. h[Len(instructions)] + d = b[Len(callers)] + Offset(a)
      <3>. DEFINE o == Offset(top)  p == Offset(a)  low == b[Len(callers)]  e == h[Len(instructions)]
      <3>1. o + 1 + d = p /\ o \in Nat /\ low \in Nat /\ e = low + o + 1
        BY <2>1, <2>3, <2>4
      <3>. HIDE DEF o, p, low, e
      <3>2. e + d = low + p
        BY <3>1
      <3>. QED  BY <3>2 DEF o, p, low, e
    <2>. QED  BY <1>1, <2>1, <2>2, <2>5, CallsUpright
  <1>. QED  BY <1>1, <1>2, Rising

LEMMA FinishesUp ==
  ASSUME IInv, Heights, NEW site, Resume(site), site \notin PatchSites, Finish,
         NEW d \in Int, Raises(d), top.site # "app" \/ top.left < top.arity => Offset(top) + d = 0
  PROVE  Heights'
  <1>1. mode' = "return" /\ stack' = callers
    BY DEF Finish
  <1>2. ASSUME plain' PROVE Upright(instructions', stack', 1)
    <2>1. PICK h, b : /\ Held(instructions, callers, Own(callers), Starts(callers), h, b)
                      /\ h[Len(instructions)] = b[Len(callers)] + Offset(top) + 1
                      /\ b[Len(callers)] \in Nat
                      /\ Awaits(instructions, top, h, b[Len(callers)], b[Len(callers)] + Offset(top))
      BY <1>2, ResumedSimple
    <2>2. /\ instructions \in Seq(Instruction)
          /\ callers \in Seq(Activation)
          /\ top \in Activation
      BY <1>2, ResumedSimple
    <2>3. top.site = "app" => top.left < top.arity
      BY <2>1 DEF Awaits
    <2>4. Offset(top) \in Nat
      BY <2>2, <2>3, SimpleOffset
    <2>5. h[Len(instructions)] + d = b[Len(callers)] + 1
      <3>. DEFINE o == Offset(top)  low == b[Len(callers)]  e == h[Len(instructions)]
      <3>1. o + d = 0 /\ o \in Nat /\ low \in Nat /\ e = low + o + 1
        BY <2>1, <2>3, <2>4
      <3>. HIDE DEF o, low, e
      <3>2. e + d = low + 1
        BY <3>1
      <3>. QED  BY <3>2 DEF o, low, e
    <2>. QED  BY <1>1, <2>1, <2>2, <2>5, ReturnsUpright
  <1>. QED  BY <1>1, <1>2, Rising

-----------------------------------------------------------------------------
(* One action after the other *)

Lower == {"binary first", "unary", "statement", "declaration", "blk", "assign",
          "reassign", "cond pred"}

Upper == {"binary second", "compound"}

LEMMA LowerOffset ==
  ASSUME NEW a, a.site \in Lower
  PROVE  Offset(a) = 0 /\ a.site # "app" /\ a.site \notin PatchSites
  BY DEF Offset, Lower, PatchSites

LEMMA UpperOffset ==
  ASSUME NEW a, a.site \in Upper
  PROVE  Offset(a) = 1 /\ a.site # "app" /\ a.site \notin PatchSites
  BY DEF Offset, Upper, PatchSites

LEMMA StraightSimple ==
  ASSUME NEW a \in Activation, a.site \in Lower \cup Upper
  PROVE  Simple(a)
  BY DEF Lower, Upper, PatchSites, Simple, Owns, Repeating, Logical

LEMMA LowerAt ==
  ASSUME NEW site \in Lower
  PROVE  At(site) \in Activation /\ Simple(At(site)) /\ Offset(At(site)) = 0
  <1>1. At(site) \in Activation /\ At(site).site \in Lower
    BY AtType DEF Lower, Sites
  <1>. QED  BY <1>1, StraightSimple, LowerOffset

LEMMA UpperAt ==
  ASSUME NEW site \in Upper
  PROVE  At(site) \in Activation /\ Simple(At(site)) /\ Offset(At(site)) = 1
  <1>1. At(site) \in Activation /\ At(site).site \in Upper
    BY AtType DEF Upper, Sites
  <1>. QED  BY <1>1, StraightSimple, UpperOffset

LEMMA LiftInstr ==
  ASSUME NEW op \in Opcodes, op \notin Jumps \cup {"Ldf", "Reset"}
  PROVE  /\ Level(Instr(op))
         /\ op \in {"Ldc", "Ld"} => Lift(Instr(op)) = 1
         /\ op \in {"Binop", "Pop"} => Lift(Instr(op)) = -1
         /\ op \in {"Unop", "Assign", "EnterScope", "ExitScope", "Call"} =>
              Lift(Instr(op)) = 0
  <1>1. Instr(op) \in Instruction /\ Instr(op).op = op /\ Instr(op).arg = 0
    BY InstrType DEF Instr
  <1>2. Level(Instr(op))
    BY <1>1 DEF Level
  <1>. DEFINE i == Instr(op)
  <1>. HIDE DEF i
  <1>3. i.op = op /\ i.arg = 0
    BY <1>1 DEF i
  <1>4. op \in {"Ldc", "Ld"} => Lift(i) = 1
    BY <1>3 DEF Lift, Effect
  <1>5. op \in {"Binop", "Pop"} => Lift(i) = -1
    BY <1>3 DEF Lift, Effect
  <1>6. op \in {"Unop", "Assign", "EnterScope", "ExitScope"} => Lift(i) = 0
    BY <1>3 DEF Lift, Effect
  <1>7. op = "Call" => Lift(i) = 0
    <2>1. ASSUME op = "Call" PROVE Lift(i) = -i.arg
      BY <1>3, <2>1 DEF Lift, Effect
    <2>. DEFINE n == i.arg
    <2>2. n = 0
      BY <1>3
    <2>. HIDE DEF n
    <2>3. -n \in Int /\ (-n) + 0 = 0
      BY <2>2
    <2>4. (-n) = 0
      <3>. DEFINE k == -n
      <3>1. k \in Int /\ k + 0 = 0
        BY <2>3
      <3>. HIDE DEF k
      <3>2. k = 0
        BY <3>1
      <3>. QED  BY <3>2 DEF k
    <2>. QED  BY <2>1, <2>4 DEF n
  <1>. QED  BY <1>2, <1>4, <1>5, <1>6, <1>7 DEF i

LEMMA RaisesInstr ==
  ASSUME NEW op \in Opcodes, addInstr(op)
  PROVE  /\ op \in {"Ldc", "Ld"} => Raises(1)
         /\ op \in {"Binop", "Pop"} => Raises(-1)
         /\ op \in {"Unop", "Assign", "EnterScope", "ExitScope"} => Raises(0)
  <1>1. instructions' = Append(instructions, Instr(op))
    BY DEF addInstr
  <1>2. ASSUME NEW d, op \notin Jumps \cup {"Ldf", "Reset"}, d = Lift(Instr(op)) PROVE Raises(d)
    BY <1>1, <1>2, LiftInstr DEF Raises
  <1>3. op \in {"Ldc", "Ld"} => Raises(1)
    BY <1>2, LiftInstr
  <1>4. op \in {"Binop", "Pop"} => Raises(-1)
    BY <1>2, LiftInstr
  <1>5. op \in {"Unop", "Assign", "EnterScope", "ExitScope"} => Raises(0)
    BY <1>2, LiftInstr
  <1>. QED  BY <1>3, <1>4, <1>5

LEMMA RaisesNothing ==
  ASSUME UNCHANGED instructions
  PROVE  Raises(0)
  BY DEF Raises

\* The two shapes that most operands have.
LEMMA NodeCallsLower ==
  ASSUME IInv, Heights, NEW kind, Node(kind), NEW site \in Lower, Call(At(site)), Raises(0)
  PROVE  Heights'
  <1>1. Simple(At(site)) /\ Offset(At(site)) = 0
    BY LowerAt
  <1>2. Raises(Offset(At(site)))
    BY <1>1
  <1>. QED  BY <1>1, <1>2, NodeCallsUp

LEMMA LowerFinishes ==
  ASSUME IInv, Heights, NEW site \in Lower, Resume(site), Finish, Raises(0)
  PROVE  Heights'
  <1>1. top.site = site
    BY DEF Resume
  <1>2. Offset(top) = 0 /\ site \notin PatchSites
    BY <1>1, LowerOffset
  <1>3. Offset(top) + 0 = 0
    BY <1>2
  <1>4. \E d \in Int : Raises(d) /\ Offset(top) + d = 0
    BY <1>3
  <1>. QED  BY <1>2, <1>4, FinishesUp

LEMMA UpperFinishes ==
  ASSUME IInv, Heights, NEW site \in Upper, Resume(site), Finish, Raises(-1)
  PROVE  Heights'
  <1>1. top.site = site
    BY DEF Resume
  <1>2. Offset(top) = 1 /\ site \notin PatchSites
    BY <1>1, UpperOffset
  <1>3. Offset(top) + (-1) = 0 /\ -1 \in Int
    BY <1>2
  <1>4. \E d \in Int : Raises(d) /\ Offset(top) + d = 0
    BY <1>3
  <1>. QED  BY <1>2, <1>4, FinishesUp

LEMMA LowerContinues ==
  ASSUME IInv, Heights, NEW site \in Lower, Resume(site),
         NEW a, Simple(a), Continue(a), NEW d \in Int, Raises(d), Offset(a) = 1 + d
  PROVE  Heights'
  <1>1. top.site = site
    BY DEF Resume
  <1>2. Offset(top) = 0 /\ site \notin PatchSites
    BY <1>1, LowerOffset
  <1>3. Offset(top) + 1 + d = Offset(a)
    BY <1>2
  <1>. QED  BY <1>2, <1>3, ContinuesUp

LEMMA ValuesHeights ==
  ASSUME IInv, Heights, Values
  PROVE  Heights'
  <1>. USE DEF Opcodes
  <1>1. ASSUME Lit PROVE Heights'
    <2>1. Node("lit") /\ addInstr("Ldc") /\ Return
      BY <1>1 DEF Lit
    <2>2. Raises(1)
      BY <2>1, RaisesInstr
    <2>. QED  BY <2>1, <2>2, NodeReturnsUp
  <1>2. ASSUME Nam PROVE Heights'
    <2>1. Node("nam") /\ addInstr("Ld") /\ Return
      BY <1>2 DEF Nam
    <2>2. Raises(1)
      BY <2>1, RaisesInstr
    <2>. QED  BY <2>1, <2>2, NodeReturnsUp
  <1>3. ASSUME compileBinaryOp PROVE Heights'
    <2>1. PICK kind : Node(kind)
      BY <1>3 DEF compileBinaryOp
    <2>2. Call(At("binary first")) /\ UNCHANGED instructions
      BY <1>3 DEF compileBinaryOp
    <2>3. "binary first" \in Lower /\ Raises(0)
      BY <2>2, RaisesNothing DEF Lower
    <2>. QED  BY <2>1, <2>2, <2>3, NodeCallsLower
  <1>4. ASSUME BinaryFirst PROVE Heights'
    <2>. DEFINE a == At("binary second")
    <2>1. Resume("binary first") /\ Continue(a) /\ Raises(0)
      BY <1>4, RaisesNothing DEF BinaryFirst
    <2>2. Simple(a) /\ Offset(a) = 1
      BY UpperAt DEF Upper
    <2>. HIDE DEF a
    <2>3. \E d \in Int : Raises(d) /\ Offset(a) = 1 + d
      <3>1. Raises(0) /\ Offset(a) = 1
        BY <2>1, <2>2
      <3>2. Offset(a) = 1 + 0
        BY <3>1
      <3>. QED  BY <3>1, <3>2
    <2>4. "binary first" \in Lower
      BY DEF Lower
    <2>. QED  BY <2>1, <2>2, <2>3, <2>4, LowerContinues
  <1>5. ASSUME BinarySecond PROVE Heights'
    <2>1. Resume("binary second") /\ addInstr("Binop") /\ Finish
      BY <1>5 DEF BinarySecond
    <2>2. Raises(-1)
      BY <2>1, RaisesInstr
    <2>3. "binary second" \in Upper
      BY DEF Upper
    <2>. QED  BY <2>1, <2>2, <2>3, UpperFinishes
  <1>6. ASSUME compileUnaryOp PROVE Heights'
    <2>1. PICK kind : Node(kind)
      BY <1>6 DEF compileUnaryOp
    <2>2. Call(At("unary")) /\ UNCHANGED instructions
      BY <1>6 DEF compileUnaryOp
    <2>3. "unary" \in Lower /\ Raises(0)
      BY <2>2, RaisesNothing DEF Lower
    <2>. QED  BY <2>1, <2>2, <2>3, NodeCallsLower
  <1>7. ASSUME UnaryFirst PROVE Heights'
    <2>1. Resume("unary") /\ addInstr("Unop") /\ Finish
      BY <1>7 DEF UnaryFirst
    <2>2. Raises(0) /\ "unary" \in Lower
      BY <2>1, RaisesInstr DEF Lower
    <2>. QED  BY <2>1, <2>2, LowerFinishes
  <1>8. ASSUME TypeCast PROVE Heights'
    <2>1. Node("type_cast") /\ mode' = "compile"
      BY <1>8 DEF TypeCast, Call
    <2>2. ~plain'
      BY <2>1, ChosenHeld
    <2>. QED  BY <2>1, <2>2, Rising
  <1>9. ASSUME CastFirst PROVE Heights'
    <2>1. Resume("cast") /\ mode' = "return"
      BY <1>9 DEF CastFirst, Finish
    <2>2. ASSUME plain' PROVE FALSE
      <3>1. ~Logical(top)
        BY <2>1, <2>2, ResumedHeld DEF Awaits
      <3>2. top.site = "cast"
        BY <2>1 DEF Resume
      <3>. QED  BY <3>1, <3>2 DEF Logical
    <2>. QED  BY <2>1, <2>2, Rising
  <1>10. ASSUME App PROVE Heights'
    <2>1. Node("app")
      BY <1>10 DEF App
    <2>2. CASE instructions' = instructions \o <<Instr("Ld"), Instr("Call")>> /\ Return
      <3>1. /\ Level(Instr("Ld")) /\ Lift(Instr("Ld")) = 1
            /\ Level(Instr("Call")) /\ Lift(Instr("Call")) = 0
        BY LiftInstr
      <3>2. Raises(1)
        BY <2>2, <3>1 DEF Raises
      <3>. QED  BY <2>1, <2>2, <3>2, NodeReturnsUp
    <2>3. ASSUME NEW arity \in 1 .. MaxArgs, addInstr("Ld"),
                 Call([At("app") EXCEPT !.arity = arity, !.left = arity - 1])
          PROVE  Heights'
      <3>. DEFINE c == At("app")  left == arity - 1  a == [c EXCEPT !.arity = arity, !.left = left]
      <3>1. Raises(1)
        BY <2>3, RaisesInstr
      <3>2. c \in Activation /\ c.site = "app"
        BY AtType DEF Sites
      <3>3. arity \in Nat /\ left \in Nat /\ left < arity /\ arity - left = 1
        BY CompilerAssumption
      <3>4. Call(a)
        BY <2>3
      <3>. HIDE DEF c, left
      <3>5. a \in Activation /\ a.site = "app" /\ a.arity = arity /\ a.left = left
        BY <3>2, <3>3 DEF Activation
      <3>. HIDE DEF a
      <3>6. Offset(a) = 1
        BY <3>3, <3>5 DEF Offset
      <3>7. Simple(a)
        BY <3>3, <3>5 DEF Simple, Owns, PatchSites, Repeating, Logical
      <3>8. Raises(Offset(a))
        BY <3>1, <3>6
      <3>. QED  BY <2>1, <3>4, <3>7, <3>8, NodeCallsUp
    <2>. QED  BY <1>10, <2>2, <2>3 DEF App
  <1>11. ASSUME AppArgument PROVE Heights'
    <2>1. Resume("app")
      BY <1>11 DEF AppArgument
    <2>2. top \in Activation /\ top.site = "app"
      BY <2>1, Resumed
    <2>. DEFINE t == top  m == t.left  n == t.arity  a == [t EXCEPT !.left = m - 1]
                i == [op |-> "Call", arg |-> n]
    <2>3. m \in Nat /\ n \in Nat
      BY <2>2 DEF Activation
    <2>4. Offset(top) = n - m
      BY <2>2 DEF Offset
    <2>5. CASE m > 0
      <3>1. Continue(a) /\ UNCHANGED instructions
        BY <1>11, <2>5 DEF AppArgument
      <3>2. Raises(0)
        BY <3>1, RaisesNothing
      <3>. DEFINE less == m - 1
      <3>3. less \in Nat
        BY <2>3, <2>5
      <3>4. less = m - 1 /\ t \in Activation /\ t.site = "app" /\ t.arity = n
        BY <2>2
      <3>. HIDE DEF t, less
      <3>5. [t EXCEPT !.left = less] \in Activation
            /\ [t EXCEPT !.left = less].site = "app"
            /\ [t EXCEPT !.left = less].arity = t.arity
            /\ [t EXCEPT !.left = less].left = less
        BY <3>3, <3>4 DEF Activation
      <3>6. a \in Activation /\ a.site = "app" /\ a.arity = n /\ a.left = less
        BY <3>5 DEF less
      <3>7. Offset(a) = n - less
        BY <3>6 DEF Offset
      <3>. HIDE DEF a, m, n
      <3>8. m < n => less < n
        BY <2>3, <3>3, <3>4
      <3>9. ASSUME m < n PROVE Simple(a) /\ Offset(top) + 1 + 0 = Offset(a)
        <4>1. Simple(a)
          BY <3>6, <3>8, <3>9 DEF Simple, Owns, PatchSites, Repeating, Logical
        <4>2. (n - m) + 1 + 0 = n - less
          BY <2>3, <3>4
        <4>. QED  BY <2>4, <3>7, <4>1, <4>2
      <3>10. CASE m < n
        <4>1. "app" \notin PatchSites
          BY DEF PatchSites
        <4>. QED  BY <2>1, <3>1, <3>2, <3>9, <3>10, <4>1, ContinuesUp
      <3>11. CASE ~(m < n)
        <4>1. ASSUME plain' PROVE FALSE
          <5>1. top.site = "app" => top.left < top.arity
            BY <2>1, <4>1, ResumedHeld DEF Awaits
          <5>. QED  BY <2>2, <3>11, <5>1 DEF m, n, t
        <4>2. mode' = "compile"
          BY <3>1 DEF Continue
        <4>. QED  BY <4>1, <4>2, Rising
      <3>. QED  BY <3>10, <3>11
    <2>6. CASE ~(m > 0)
      <3>1. instructions' = Append(instructions, i) /\ Finish
        BY <1>11, <2>6 DEF AppArgument
      <3>2. i \in Instruction /\ i.op = "Call" /\ i.arg = n /\ m = 0
        BY <2>3, <2>6 DEF Instruction
      <3>. HIDE DEF i, m, n, t
      <3>3. Level(i) /\ Lift(i) = -n
        BY <3>2 DEF Level, Lift, Effect
      <3>4. Raises(-n)
        BY <3>1, <3>3 DEF Raises
      <3>5. Offset(top) + (-n) = 0 /\ -n \in Int
        BY <2>3, <2>4, <3>2
      <3>6. "app" \notin PatchSites
        BY DEF PatchSites
      <3>. QED  BY <2>1, <3>1, <3>4, <3>5, <3>6, FinishesUp
    <2>. QED  BY <2>5, <2>6
  <1>. QED
    BY <1>1, <1>2, <1>3, <1>4, <1>5, <1>6, <1>7, <1>8, <1>9, <1>10, <1>11 DEF Values

LEMMA LowerNode ==
  ASSUME IInv, Heights, NEW kind, Node(kind),
         NEW a \in Activation, a.site \in Lower, Call(a), Raises(0)
  PROVE  Heights'
  <1>1. Simple(a) /\ Offset(a) = 0
    BY StraightSimple, LowerOffset
  <1>2. Raises(Offset(a))
    BY <1>1
  <1>. QED  BY <1>1, <1>2, NodeCallsUp

LEMMA NextStatementLower ==
  ASSUME NEW declares \in {"no", "may", "must"}, NEW nodes,
         NEW statement \in NextStatement(declares, nodes)
  PROVE  statement \in Activation /\ statement.site \in Lower
  <1>. DEFINE s == At("statement")  d == At("declaration")
  <1>1. /\ s \in Activation /\ s.site \in Lower
        /\ d \in Activation /\ d.site \in Lower
    BY AtType DEF Sites, Lower
  <1>2. \/ statement = [s EXCEPT !.declares = declares]
        \/ statement = [d EXCEPT !.declares = "may"]
    BY DEF NextStatement
  <1>. HIDE DEF s, d
  <1>3. [s EXCEPT !.declares = declares] \in Activation
        /\ [s EXCEPT !.declares = declares].site \in Lower
    BY <1>1, AmendScan
  <1>4. [d EXCEPT !.declares = "may"] \in Activation
        /\ [d EXCEPT !.declares = "may"].site \in Lower
    BY <1>1, AmendScan
  <1>. QED  BY <1>2, <1>3, <1>4

LEMMA FailsFlat ==
  ASSUME Fail
  PROVE  Heights'
  <1>1. mode' = "error"
    BY DEF Fail
  <1>. QED  BY <1>1, Rising

LEMMA StatementsHeights ==
  ASSUME IInv, Heights, Statements
  PROVE  Heights'
  <1>. USE DEF Opcodes
  <1>1. ASSUME compileSequence PROVE Heights'
    <2>1. Node("seq")
      BY <1>1 DEF compileSequence
    <2>2. CASE addInstr("Ldc") /\ Return
      <3>1. Raises(1)
        BY <2>2, RaisesInstr
      <3>. QED  BY <2>1, <2>2, <3>1, NodeReturnsUp
    <2>3. ASSUME NEW statement \in NextStatement(Declares, fuel'),
                 Call(statement), UNCHANGED instructions
          PROVE  Heights'
      <3>1. Declares \in {"no", "may", "must"}
        BY DEF Declares
      <3>2. statement \in Activation /\ statement.site \in Lower
        BY <2>3, <3>1, NextStatementLower
      <3>3. Raises(0)
        BY <2>3, RaisesNothing
      <3>. QED  BY <2>1, <2>3, <3>2, <3>3, LowerNode
    <2>. QED  BY <1>1, <2>2, <2>3 DEF compileSequence
  <1>2. ASSUME SequenceStatement PROVE Heights'
    <2>1. PICK site \in {"statement", "declaration"} : Resume(site)
      BY <1>2 DEF SequenceStatement
    <2>2. site \in Lower
      BY DEF Lower
    <2>3. CASE Finish /\ UNCHANGED instructions
      BY <2>1, <2>2, <2>3, RaisesNothing, LowerFinishes
    <2>4. ASSUME NEW statement \in NextStatement(top.declares, fuel),
                 Continue(statement), addInstr("Pop")
          PROVE  Heights'
      <3>1. top.declares \in {"no", "may", "must"}
        BY <2>1, Resumed DEF Activation
      <3>2. statement \in Activation /\ statement.site \in Lower
        BY <2>4, <3>1, NextStatementLower
      <3>3. Simple(statement) /\ Offset(statement) = 0
        BY <3>2, StraightSimple, LowerOffset
      <3>4. Raises(-1)
        BY <2>4, RaisesInstr
      <3>5. Offset(statement) = 1 + (-1) /\ -1 \in Int
        BY <3>3
      <3>. QED  BY <2>1, <2>2, <2>4, <3>3, <3>4, <3>5, LowerContinues
    <2>. QED  BY <1>2, <2>3, <2>4 DEF SequenceStatement
  <1>3. ASSUME compileBlock PROVE Heights'
    <2>1. Node("blk")
      BY <1>3 DEF compileBlock
    <2>. DEFINE c == At("blk")
    <2>2. c \in Activation /\ c.site \in Lower
      BY AtType DEF Sites, Lower
    <2>3. CASE addInstr("EnterScope") /\ Call([c EXCEPT !.has_locals = TRUE])
      <3>1. Raises(0)
        BY <2>3, RaisesInstr
      <3>. HIDE DEF c
      <3>2. [c EXCEPT !.has_locals = TRUE] \in Activation
            /\ [c EXCEPT !.has_locals = TRUE].site \in Lower
        BY <2>2, AmendScan
      <3>. QED  BY <2>1, <2>3, <3>1, <3>2, LowerNode
    <2>4. CASE Call(c) /\ UNCHANGED instructions
      <3>1. Raises(0)
        BY <2>4, RaisesNothing
      <3>. HIDE DEF c
      <3>. QED  BY <2>1, <2>2, <2>4, <3>1, LowerNode
    <2>. QED  BY <1>3, <2>3, <2>4 DEF compileBlock
  <1>4. ASSUME BlockBody PROVE Heights'
    <2>1. Resume("blk") /\ Finish
      BY <1>4 DEF BlockBody
    <2>2. Raises(0)
      <3>1. CASE addInstr("ExitScope")
        BY <3>1, RaisesInstr
      <3>2. CASE UNCHANGED instructions
        BY <3>2, RaisesNothing
      <3>. QED  BY <1>4, <3>1, <3>2 DEF BlockBody
    <2>3. "blk" \in Lower
      BY DEF Lower
    <2>. QED  BY <2>1, <2>2, <2>3, LowerFinishes
  <1>5. ASSUME compileVarDecl PROVE Heights'
    <2>1. Node("assign") /\ Call(At("assign")) /\ Raises(0)
      BY <1>5, RaisesNothing DEF compileVarDecl
    <2>2. "assign" \in Lower
      BY DEF Lower
    <2>. QED  BY <2>1, <2>2, NodeCallsLower
  <1>6. ASSUME VarDeclValue PROVE Heights'
    <2>1. Resume("assign") /\ addInstr("Assign") /\ Finish
      BY <1>6 DEF VarDeclValue
    <2>2. Raises(0) /\ "assign" \in Lower
      BY <2>1, RaisesInstr DEF Lower
    <2>. QED  BY <2>1, <2>2, LowerFinishes
  <1>7. ASSUME Reassign PROVE Heights'
    <2>1. Node("reassign") /\ Call(At("reassign")) /\ Raises(0)
      BY <1>7, RaisesNothing DEF Reassign
    <2>2. "reassign" \in Lower
      BY DEF Lower
    <2>. QED  BY <2>1, <2>2, NodeCallsLower
  <1>8. ASSUME ReassignValue PROVE Heights'
    <2>1. Resume("reassign")
      BY <1>8 DEF ReassignValue
    <2>2. CASE addInstr("Assign") /\ Finish
      <3>1. Raises(0) /\ "reassign" \in Lower
        BY <2>2, RaisesInstr DEF Lower
      <3>. QED  BY <2>1, <2>2, <3>1, LowerFinishes
    <2>. QED  BY <1>8, <2>2, FailsFlat DEF ReassignValue
  <1>9. ASSUME CompoundAssign PROVE Heights'
    <2>1. Node("compound_assign")
      BY <1>9 DEF CompoundAssign
    <2>2. CASE addInstr("Ld") /\ Call(At("compound"))
      <3>1. Raises(1)
        BY <2>2, RaisesInstr
      <3>2. Simple(At("compound")) /\ Offset(At("compound")) = 1
        BY UpperAt DEF Upper
      <3>3. Raises(Offset(At("compound")))
        BY <3>1, <3>2
      <3>. QED  BY <2>1, <2>2, <3>2, <3>3, NodeCallsUp
    <2>. QED  BY <1>9, <2>2, FailsFlat DEF CompoundAssign
  <1>10. ASSUME CompoundValue PROVE Heights'
    <2>1. /\ Resume("compound")
          /\ instructions' = instructions \o <<Instr("Binop"), Instr("Assign")>>
          /\ Finish
      BY <1>10 DEF CompoundValue
    <2>2. /\ Level(Instr("Binop")) /\ Lift(Instr("Binop")) = -1
          /\ Level(Instr("Assign")) /\ Lift(Instr("Assign")) = 0
      BY LiftInstr
    <2>3. Raises(-1)
      BY <2>1, <2>2 DEF Raises
    <2>4. "compound" \in Upper
      BY DEF Upper
    <2>. QED  BY <2>1, <2>3, <2>4, UpperFinishes
  <1>. QED
    BY <1>1, <1>2, <1>3, <1>4, <1>5, <1>6, <1>7, <1>8, <1>9, <1>10 DEF Statements

-----------------------------------------------------------------------------
(* Steps that add or patch jumps, on the code and the stack alone *)

Goto == Instr("Goto")
Jof  == Instr("Jof")

LEMMA JumpFacts ==
  /\ Goto \in Instruction /\ Goto.op = "Goto" /\ Lift(Goto) = 0
  /\ Jof \in Instruction /\ Jof.op = "Jof" /\ Lift(Jof) = -1
  <1>1. Goto \in Instruction /\ Goto.op = "Goto" /\ Jof \in Instruction /\ Jof.op = "Jof"
    BY InstrType DEF Opcodes, Goto, Jof
  <1>2. Lift(Goto) = 0
    BY <1>1 DEF Lift, Effect
  <1>3. Lift(Jof) = -1
    BY <1>1 DEF Lift, Effect
  <1>. QED  BY <1>1, <1>2, <1>3

\* A Jof is added, for the next activation to patch.
Testing(code, stk, own, starts, h, b, low) ==
  /\ code \in Seq(Instruction) /\ low \in Nat
  /\ Held(code, stk, own, starts, h, b)
  /\ h[Len(code)] = low + 1

Tested(code, stk, own, starts, h, b, low) ==
  \E h2 : /\ Held(Append(code, Jof), stk, own \cup {Len(code)}, starts, h2, b)
          /\ Same(Len(code), h, h2)
          /\ h2[Len(code) + 1] = low

LEMMA HeldJof ==
  ASSUME NEW code, NEW stk, NEW own, NEW starts, NEW h, NEW b, NEW low,
         Testing(code, stk, own, starts, h, b, low)
  PROVE  Tested(code, stk, own, starts, h, b, low)
  <1>. DEFINE h2 == Higher(h, Len(code), low)  own2 == own \cup {Len(code)}
  <1>1. /\ Flow(code, own, starts, h) /\ Waits(code, stk, h, b)
        /\ code \in Seq(Instruction) /\ low \in Nat /\ h[Len(code)] = low + 1
    BY DEF Held, Testing
  <1>2. h2 = Higher(h, Len(code), low)
    OBVIOUS
  <1>. HIDE DEF h2
  <1>3. low = h[Len(code)] + Lift(Jof)
    BY <1>1, JumpFacts
  <1>4. /\ Flow(Append(code, Jof), own2, starts, h2)
        /\ Same(Len(code), h, h2)
        /\ h2[Len(code) + 1] = low
    <2>1. /\ Jof.op \notin Branches /\ Jof.op # "Ldf" /\ Jof.op # "Reset" /\ Jof \in Instruction
          /\ own \subseteq own2 /\ own2 \subseteq own \cup {Len(code)}
          /\ Len(code) \in own2
      BY JumpFacts DEF Branches
    <2>. HIDE DEF own2
    <2>2. Pushing(code, Jof, own, own2, starts, starts, h, low)
      BY <1>1, <1>3, <2>1 DEF Pushing
    <2>. QED  BY <1>2, <2>2, FlowPush
  <1>5. Waits(Append(code, Jof), stk, h2, b)
    BY <1>1, <1>4, JumpFacts, AppendFacts, ExtendsAppend, WaitsKept
  <1>. QED  BY <1>4, <1>5 DEF Held, Tested

\* A Goto over a function that begins after it.
Passed(code, stk, own, starts, h, b) ==
  \E h2 : /\ Held(Append(code, Goto), stk, own \cup {Len(code)},
                  starts \cup {Len(code) + 1}, h2, b)
          /\ Same(Len(code), h, h2)
          /\ h2[Len(code) + 1] = 0

LEMMA HeldOver ==
  ASSUME NEW code \in Seq(Instruction), NEW stk, NEW own, NEW starts, NEW h, NEW b,
         Held(code, stk, own, starts, h, b)
  PROVE  Passed(code, stk, own, starts, h, b)
  <1>. DEFINE h2 == Higher(h, Len(code), 0)  own2 == own \cup {Len(code)}
              starts2 == starts \cup {Len(code) + 1}
  <1>1. Flow(code, own, starts, h) /\ Waits(code, stk, h, b)
    BY DEF Held
  <1>2. h2 = Higher(h, Len(code), 0) /\ 0 \in Nat
    OBVIOUS
  <1>. HIDE DEF h2
  <1>4. /\ Flow(Append(code, Goto), own2, starts2, h2)
        /\ Same(Len(code), h, h2)
        /\ h2[Len(code) + 1] = 0
    <2>1. /\ Goto.op \in Branches /\ Goto.op # "Ldf" /\ Goto.op # "Reset" /\ Goto \in Instruction
          /\ own \subseteq own2 /\ own2 \subseteq own \cup {Len(code)}
          /\ Len(code) \in own2
          /\ Len(code) + 1 \in starts2
          /\ \A s \in starts : s \in starts2
          /\ \A s \in starts2 : s \in starts \/ s = Len(code) + 1
      BY JumpFacts DEF Branches
    <2>. HIDE DEF own2, starts2
    <2>2. Pushing(code, Goto, own, own2, starts, starts2, h, 0)
      BY <1>1, <1>2, <2>1 DEF Pushing
    <2>. QED  BY <1>2, <2>2, FlowPush
  <1>5. Waits(Append(code, Goto), stk, h2, b)
    BY <1>1, <1>4, JumpFacts, AppendFacts, ExtendsAppend, WaitsKept
  <1>. QED  BY <1>4, <1>5 DEF Held, Passed

LEMMA HeldPatch ==
  ASSUME NEW code \in Seq(Instruction), NEW stk, NEW own, NEW starts, NEW h, NEW b,
         Held(code, stk, own, starts, h, b),
         NEW j \in own, j \in Addr(code), code[j + 1].op \in Jumps,
         h[Len(code)] = h[j] + Lift(code[j + 1])
  PROVE  /\ Held(patchJump(code, j, Len(code)), stk, own \ {j}, starts, h, b)
         /\ Len(patchJump(code, j, Len(code))) = Len(code)
  <1>. DEFINE code2 == patchJump(code, j, Len(code))
  <1>1. Flow(code, own, starts, h) /\ Waits(code, stk, h, b) /\ Len(code) \in Nat
    BY DEF Held
  <1>2. Flow(code2, own \ {j}, starts, h)
    BY <1>1, FlowPatch
  <1>3. code2 \in Seq(Instruction) /\ Extends(code, code2) /\ Len(code2) = Len(code)
    BY <1>1, PatchFacts, ExtendsPatch
  <1>4. Same(Len(code), h, h)
    BY DEF Same
  <1>. HIDE DEF code2
  <1>5. Waits(code2, stk, h, b)
    BY <1>1, <1>3, <1>4, WaitsKept
  <1>. QED  BY <1>2, <1>3, <1>5 DEF Held, code2

\* The jump at j is patched to the address after the branch that is added.
LEMMA HeldTurn ==
  ASSUME NEW code, NEW stk, NEW i, NEW j, NEW own, NEW own2, NEW starts, NEW h, NEW b, NEW v,
         Turning(code, i, j, own, own2, starts, h, v),
         Waits(code, stk, h, b)
  PROVE  LET code2 == patchJump(Append(code, i), j, Len(code) + 1)
         IN  /\ code2 \in Seq(Instruction)
             /\ Len(code2) = Len(code) + 1
             /\ code2[Len(code) + 1] = i
             /\ \E h2 : /\ Held(code2, stk, own2, starts, h2, b)
                        /\ Same(Len(code), h, h2)
                        /\ h2[Len(code) + 1] = v
  <1>. DEFINE longer == Append(code, i)  n == Len(code)
              code2 == patchJump(longer, j, n + 1)  h2 == Higher(h, n, v)
  <1>1. /\ code \in Seq(Instruction) /\ i \in Instruction /\ j \in Addr(code)
        /\ Waits(code, stk, h, b) /\ n \in Nat
    BY DEF Turning
  <1>2. /\ longer \in Seq(Instruction) /\ Len(longer) = n + 1
        /\ Extends(code, longer)
        /\ longer[n + 1] = i
        /\ Addr(longer) = Addr(code) \cup {n}
        /\ n \notin Addr(code)
    <2>1. /\ longer \in Seq(Instruction) /\ Len(longer) = n + 1
          /\ longer[n + 1] = i
          /\ Addr(longer) = Addr(code) \cup {n}
          /\ n \notin Addr(code)
      BY <1>1, AppendFacts
    <2>2. Extends(code, longer)
      BY <1>1, ExtendsAppend
    <2>. QED  BY <2>1, <2>2
  <1>3. h2 = Higher(h, Len(code), v)
    OBVIOUS
  <1>. HIDE DEF h2
  <1>4. /\ Flow(patchJump(Append(code, i), j, Len(code) + 1), own2, starts, h2)
        /\ Same(Len(code), h, h2)
        /\ h2[Len(code) + 1] = v
    BY <1>3, FlowTurn
  <1>5. Flow(code2, own2, starts, h2)
    BY <1>4
  <1>. HIDE DEF longer
  <1>6. j \in Addr(longer) /\ n \in Addr(longer) /\ j # n /\ n + 1 \in Nat
    BY <1>1, <1>2
  <1>7. /\ code2 \in Seq(Instruction) /\ Len(code2) = n + 1
        /\ Extends(longer, code2)
        /\ code2[n + 1] = i
    <2>. DEFINE t == n + 1
    <2>1. longer \in Seq(Instruction) /\ j \in Addr(longer) /\ t \in Nat /\ n \in Addr(longer) \ {j}
      BY <1>2, <1>6
    <2>. HIDE DEF t
    <2>2. /\ patchJump(longer, j, t) \in Seq(Instruction)
          /\ Len(patchJump(longer, j, t)) = Len(longer)
          /\ patchJump(longer, j, t)[n + 1] = longer[n + 1]
          /\ Extends(longer, patchJump(longer, j, t))
      BY <2>1, PatchFacts, ExtendsPatch
    <2>. QED  BY <1>2, <2>2 DEF t
  <1>. HIDE DEF code2
  <1>8. Extends(code, code2)
    <2>1. Len(code) <= Len(code2)
      BY <1>1, <1>7
    <2>2. \A a \in Addr(code) : a \in Addr(longer)
      BY <1>2
    <2>. QED  BY <1>2, <1>7, <2>1, <2>2 DEF Extends
  <1>9. Waits(code2, stk, h2, b)
    BY <1>1, <1>4, <1>7, <1>8, WaitsKept
  <1>10. /\ code2 \in Seq(Instruction)
         /\ Len(code2) = Len(code) + 1
         /\ code2[Len(code) + 1] = i
         /\ \E h3 : /\ Held(code2, stk, own2, starts, h3, b)
                    /\ Same(Len(code), h, h3)
                    /\ h3[Len(code) + 1] = v
    BY <1>4, <1>5, <1>7, <1>9 DEF Held
  <1>. QED  BY <1>10 DEF code2, longer

\* The code is ready for an activation that waits for its next operand.
Ready(code, stk, own, starts, h, b, a, high) ==
  /\ Held(code, stk, own, starts, h, b)
  /\ Waiting(code, stk, h, b, a, high)
  /\ h[Len(code)] = high
  /\ own = Own(stk) \cup (IF Owns(a) THEN {a.jump} ELSE {})
  /\ starts = Starts(stk) \cup (IF Function(a) THEN {a.start} ELSE {})

LEMMA OwnerUpright ==
  ASSUME NEW code, NEW stk, NEW own, NEW starts, NEW h, NEW b, NEW a, NEW high,
         Ready(code, stk, own, starts, h, b, a, high)
  PROVE  Upright(code, Append(stk, a), 0)
  <1>. DEFINE longer == Append(stk, a)  b2 == Higher(b, Len(stk), high)
  <1>1. /\ Held(code, stk, own, starts, h, b)
        /\ Waiting(code, stk, h, b, a, high)
        /\ h[Len(code)] = high /\ high \in Nat
        /\ own = Own(stk) \cup (IF Owns(a) THEN {a.jump} ELSE {})
        /\ starts = Starts(stk) \cup (IF Function(a) THEN {a.start} ELSE {})
        /\ stk \in Seq(Activation) /\ a \in Activation
    BY DEF Ready, Waiting
  <1>2. Waits(code, longer, h, b2) /\ b2[Len(longer)] = high
    BY <1>1, WaitsPush
  <1>3. Own(longer) = own /\ Starts(longer) = starts
    BY <1>1, OwnAppend, StartsAppend
  <1>. HIDE DEF longer, b2
  <1>4. Held(code, longer, Own(longer), Starts(longer), h, b2)
    BY <1>1, <1>2, <1>3 DEF Held
  <1>5. h[Len(code)] = b2[Len(longer)] + 0
    BY <1>1, <1>2
  <1>6. Upright(code, longer, 0)
    BY <1>4, <1>5 DEF Upright
  <1>. QED  BY <1>6 DEF longer

\* The code after a function's body: Reset, Ldf and Assign.
Ending(code, stk, h, b, j, s) ==
  /\ code \in Seq(Instruction) /\ stk \in Seq(Activation) /\ s \in Nat
  /\ j \notin Own(stk) /\ Own(stk) \cup {j} \subseteq Addr(code)
  /\ Held(code, stk, Own(stk) \cup {j}, Starts(stk) \cup {s}, h, b)
  /\ code[j + 1].op \in Jumps
  /\ h[j] + Lift(code[j + 1]) = b[Len(stk)]
  /\ h[Len(code)] = 1

LEMMA EndUpright ==
  ASSUME NEW code, NEW stk, NEW h, NEW b, NEW j, NEW s, Ending(code, stk, h, b, j, s)
  PROVE  Upright(FnDeclEnd(code, j, s), stk, 1)
  <1>0. /\ code \in Seq(Instruction) /\ stk \in Seq(Activation) /\ s \in Nat
        /\ j \notin Own(stk) /\ Own(stk) \cup {j} \subseteq Addr(code)
        /\ Held(code, stk, Own(stk) \cup {j}, Starts(stk) \cup {s}, h, b)
        /\ code[j + 1].op \in Jumps
        /\ h[j] + Lift(code[j + 1]) = b[Len(stk)]
        /\ h[Len(code)] = 1
    BY DEF Ending
  <1>. USE <1>0
  <1>. DEFINE n == Len(code)  reset == Instr("Reset")  low == b[Len(stk)]
              code2 == patchJump(Append(code, reset), j, n + 1)
              ldf == [op |-> "Ldf", arg |-> s]
              code3 == Append(code2, ldf)
  <1>1. reset \in Instruction /\ reset.op = "Reset" /\ reset.op \in Branches
    BY InstrType DEF Opcodes, Branches
  <1>2. ldf \in Instruction /\ ldf.op = "Ldf" /\ ldf.arg = s
    BY DEF Instruction, Opcodes
  <1>3. low \in Nat /\ n \in Nat
    BY HeldTop
  <1>4. FnDeclEnd(code, j, s) = code2 \o <<ldf, Instr("Assign")>>
    BY DEF FnDeclEnd
  <1>. HIDE DEF reset, ldf, low
  <1>5. /\ code2 \in Seq(Instruction)
        /\ Len(code2) = n + 1
        /\ \E h2 : /\ Held(code2, stk, Own(stk), Starts(stk) \cup {s}, h2, b)
                   /\ Same(n, h, h2)
                   /\ h2[n + 1] = low
    <2>. DEFINE own == Own(stk) \cup {j}  own2 == Own(stk)
    <2>1. /\ own2 \ {n} = own \ {j} /\ j \in own /\ own \subseteq Addr(code)
          /\ low = h[j] + Lift(code[j + 1])
          /\ Held(code, stk, own, Starts(stk) \cup {s}, h, b)
      <3>1. n \notin Addr(code)
        BY <1>3 DEF Addr
      <3>. QED  BY <3>1 DEF low
    <2>. HIDE DEF own, own2
    <2>2. /\ code2 \in Seq(Instruction)
          /\ Len(code2) = n + 1
          /\ \E h2 : /\ Held(code2, stk, own2, Starts(stk) \cup {s}, h2, b)
                     /\ Same(n, h, h2)
                     /\ h2[n + 1] = low
      <3>. DEFINE starts == Starts(stk) \cup {s}
      <3>1. Held(code, stk, own, starts, h, b)
        BY <2>1
      <3>. HIDE DEF starts
      <3>0. Turning(code, reset, j, own, own2, starts, h, low) /\ Waits(code, stk, h, b)
        BY <1>1, <1>3, <2>1, <3>1 DEF Turning, Held
      <3>2. LET turned == patchJump(Append(code, reset), j, Len(code) + 1)
            IN  /\ turned \in Seq(Instruction)
                /\ Len(turned) = Len(code) + 1
                /\ turned[Len(code) + 1] = reset
                /\ \E h2 : /\ Held(turned, stk, own2, starts, h2, b)
                           /\ Same(Len(code), h, h2)
                           /\ h2[Len(code) + 1] = low
        BY <3>0, HeldTurn
      <3>. QED  BY <3>2 DEF starts
    <2>. QED  BY <2>2 DEF own2
  <1>6. PICK h2 : /\ Held(code2, stk, Own(stk), Starts(stk) \cup {s}, h2, b)
                  /\ Same(n, h, h2)
                  /\ h2[n + 1] = low
    BY <1>5
  <1>. HIDE DEF code2
  <1>7. h2[Len(code2) - 1] = 1 /\ Len(code2) > 0 /\ h2[Len(code2)] = low
    <2>1. Len(code2) - 1 = n /\ n \in 0 .. n /\ Len(code2) > 0
      BY <1>3, <1>5
    <2>2. h2[n] = 1
      BY <1>6, <2>1 DEF Same
    <2>. QED  BY <1>5, <1>6, <2>1, <2>2
  <1>. DEFINE h3 == Higher(h2, Len(code2), low + 1)  starts == Starts(stk) \cup {s}
              v == low + 1
  <1>8. /\ h3 = Higher(h2, Len(code2), v)
        /\ v \in Nat
        /\ s \in starts
        /\ \A t \in starts : t \in Starts(stk) \/ t = s
        /\ \A t \in Starts(stk) : t \in starts
        /\ Flow(code2, Own(stk), starts, h2) /\ Waits(code2, stk, h2, b)
        /\ v = h2[Len(code2)] + Lift(ldf)
    <2>1. Lift(ldf) = 1
      BY <1>2 DEF Lift, Effect
    <2>. QED  BY <1>3, <1>6, <1>7, <2>1 DEF Held
  <1>. HIDE DEF h3, starts
  <1>9. /\ Flow(Append(code2, ldf), Own(stk), Starts(stk), h3)
        /\ Same(Len(code2), h2, h3)
        /\ h3[Len(code2) + 1] = v
    <2>1. ldf.op \notin Branches /\ ldf.op \notin Jumps
      BY <1>2 DEF Branches
    <2>2. Own(stk) \subseteq Own(stk) /\ Own(stk) \subseteq Own(stk) \cup {Len(code2)}
      OBVIOUS
    <2>3. \A t \in starts : t \in Starts(stk) \/ (ldf.op = "Ldf" /\ ldf.arg = t)
      BY <1>2, <1>8
    <2>4. \A t \in Starts(stk) : t \in starts \/ (t = Len(code2) + 1 /\ v = 0)
      BY <1>8
    <2>5. Pushing(code2, ldf, Own(stk), Own(stk), starts, Starts(stk), h2, v)
      <3>. HIDE DEF v
      <3>. QED  BY <1>2, <1>5, <1>7, <1>8, <2>1, <2>2, <2>3, <2>4 DEF Pushing
    <2>. HIDE DEF v
    <2>. QED  BY <1>8, <2>5, FlowPush
  <1>10. /\ code3 \in Seq(Instruction) /\ Len(code3) = Len(code2) + 1
         /\ Extends(code2, code3)
    BY <1>2, <1>5, AppendFacts, ExtendsAppend
  <1>11. Held(code3, stk, Own(stk), Starts(stk), h3, b)
    <2>1. Flow(code3, Own(stk), Starts(stk), h3)
      BY <1>9
    <2>. HIDE DEF code3
    <2>2. Waits(code3, stk, h3, b)
      BY <1>5, <1>8, <1>9, <1>10, WaitsKept
    <2>. QED  BY <2>1, <2>2 DEF Held
  <1>12. h3[Len(code3)] = low + 1
    BY <1>9, <1>10
  <1>. HIDE DEF code3
  <1>13. Level(Instr("Assign")) /\ Lift(Instr("Assign")) = 0
    BY LiftInstr DEF Opcodes
  <1>. DEFINE code4 == Append(code3, Instr("Assign"))
  <1>14. PICK h4 : /\ Held(code4, stk, Own(stk), Starts(stk), h4, b)
                   /\ h4[Len(code4)] = h3[Len(code3)] + Lift(Instr("Assign"))
    <2>1. h3[Len(code3)] + Lift(Instr("Assign")) \in Nat
      BY <1>3, <1>12, <1>13
    <2>. QED  BY <1>10, <1>11, <1>13, <2>1, HeldLevel
  <1>15. h4[Len(code4)] = low + 1
    BY <1>3, <1>12, <1>13, <1>14
  <1>16. Upright(code4, stk, 1)
    BY <1>14, <1>15 DEF Upright, low
  <1>17. FnDeclEnd(code, j, s) = code4
    BY <1>2, <1>4, <1>5, <1>13, ConcatTwo DEF Level, code3
  <1>. QED  BY <1>16, <1>17

-----------------------------------------------------------------------------
(* Conditionals, functions and loops *)

\* For an activation that patches the jump it owns.
LEMMA ResumedOwner ==
  ASSUME IInv, Heights, NEW site, Resume(site), site \in PatchSites, plain'
  PROVE  /\ instructions \in Seq(Instruction)
         /\ callers \in Seq(Activation)
         /\ top \in Activation
         /\ top.site = site
         /\ top.jump \notin Own(callers)
         /\ Own(callers) \cup {top.jump} \subseteq Addr(instructions)
         /\ \E h, b, high :
              /\ Held(instructions, callers, Own(callers) \cup {top.jump},
                      Starts(callers) \cup (IF Function(top) THEN {top.start} ELSE {}), h, b)
              /\ Awaits(instructions, top, h, b[Len(callers)], high)
              /\ h[Len(instructions)] = high + 1
              /\ high \in Nat
              /\ b[Len(callers)] \in Nat
  <1>1. /\ instructions \in Seq(Instruction)
        /\ callers \in Seq(Activation)
        /\ top \in Activation
        /\ top.site = site
    BY ResumedHeld
  <1>2. Owns(top)
    BY <1>1 DEF Owns
  <1>3. /\ Frame(instructions, callers, Own(callers) \cup {top.jump})
        /\ top.jump \notin Own(callers)
    BY Resumed
  <1>4. Own(callers) \cup {top.jump} \subseteq Addr(instructions)
    BY <1>3 DEF Frame, Sound
  <1>5. Own(callers) \cup (IF Owns(top) THEN {top.jump} ELSE {}) = Own(callers) \cup {top.jump}
    BY <1>2
  <1>6. \E h, b, high :
          /\ Held(instructions, callers,
                  Own(callers) \cup (IF Owns(top) THEN {top.jump} ELSE {}),
                  Starts(callers) \cup (IF Function(top) THEN {top.start} ELSE {}), h, b)
          /\ Awaits(instructions, top, h, b[Len(callers)], high)
          /\ h[Len(instructions)] = high + 1
          /\ high \in Nat
          /\ b[Len(callers)] \in Nat
    BY ResumedHeld
  <1>. QED  BY <1>1, <1>3, <1>4, <1>5, <1>6

Patches(a) == a.site \in {"cond cons", "cond alt", "while body"}

\* Of these none is a function, and the operand begins where the node began.
LEMMA ResumedJump ==
  ASSUME IInv, Heights, NEW site, Resume(site), Patches(top), plain'
  PROVE  /\ instructions \in Seq(Instruction)
         /\ callers \in Seq(Activation)
         /\ top \in Activation
         /\ top.jump \notin Own(callers)
         /\ Own(callers) \cup {top.jump} \subseteq Addr(instructions)
         /\ instructions[top.jump + 1].op \in Jumps
         /\ \E h, b :
              /\ Held(instructions, callers, Own(callers) \cup {top.jump}, Starts(callers), h, b)
              /\ h[Len(instructions)] = b[Len(callers)] + 1
              /\ b[Len(callers)] \in Nat
              /\ h[top.jump] + Lift(instructions[top.jump + 1]) =
                   IF Alternative(top) THEN b[Len(callers)] + 1 ELSE b[Len(callers)]
              /\ Repeating(top) => top.start \in 0 .. Len(instructions)
                                     /\ h[top.start] = b[Len(callers)]
  <1>0. top.site = site
    BY DEF Resume
  <1>1. ~Function(top) /\ Owns(top) /\ site \in PatchSites
        /\ top.site \notin {"app", "compound"} /\ top.site \notin Upper
    BY <1>0 DEF Patches, Function, Owns, PatchSites, Upper
  <1>2. /\ instructions \in Seq(Instruction)
        /\ callers \in Seq(Activation)
        /\ top \in Activation
        /\ top.jump \notin Own(callers)
        /\ Own(callers) \cup {top.jump} \subseteq Addr(instructions)
    BY <1>1, ResumedOwner
  <1>3. PICK h, b, high :
              /\ Held(instructions, callers, Own(callers) \cup {top.jump},
                      Starts(callers) \cup (IF Function(top) THEN {top.start} ELSE {}), h, b)
              /\ Awaits(instructions, top, h, b[Len(callers)], high)
              /\ h[Len(instructions)] = high + 1
              /\ high \in Nat
              /\ b[Len(callers)] \in Nat
    BY <1>1, ResumedOwner
  <1>4. Held(instructions, callers, Own(callers) \cup {top.jump}, Starts(callers), h, b)
    <2>1. Starts(callers) \cup (IF Function(top) THEN {top.start} ELSE {}) = Starts(callers)
      BY <1>1
    <2>. QED  BY <1>3, <2>1
  <1>5. Offset(top) = 0
    BY <1>1, Zenon DEF Offset, Upper
  <1>6. high = b[Len(callers)] + Offset(top)
    BY <1>1, <1>3 DEF Awaits
  <1>7. h[Len(instructions)] = b[Len(callers)] + 1
    BY <1>3, <1>5, <1>6
  <1>8. /\ instructions[top.jump + 1].op \in Jumps
        /\ h[top.jump] + Lift(instructions[top.jump + 1]) =
             IF Alternative(top) THEN b[Len(callers)] + 1 ELSE b[Len(callers)]
        /\ Repeating(top) => top.start \in 0 .. Len(instructions)
                               /\ h[top.start] = b[Len(callers)]
    BY <1>1, <1>3 DEF Awaits
  <1>. QED  BY <1>2, <1>3, <1>4, <1>7, <1>8

\* An activation that waits with a jump to patch.
LEMMA OwnerAwaits ==
  ASSUME NEW code, NEW a \in Activation, NEW h, NEW low, NEW high,
         Owns(a), ~Logical(a), a.jump \in Addr(code), code[a.jump + 1].op \in Jumps,
         h[a.jump] + Lift(code[a.jump + 1]) = IF Alternative(a) THEN low + 1 ELSE low,
         high = IF Function(a) THEN 0 ELSE low,
         low \in Nat,
         Repeating(a) => a.start \in 0 .. Len(code) /\ h[a.start] = low
  PROVE  Awaits(code, a, h, low, high)
  <1>1. a.site # "app" /\ a.site # "return" /\ a.site \notin Upper
    BY DEF Owns, PatchSites, Upper
  <1>2. Offset(a) = 0
    BY <1>1, Zenon DEF Offset, Upper
  <1>3. low + Offset(a) = low
    BY <1>2
  <1>. QED  BY <1>1, <1>3, Zenon DEF Awaits

\* For the sites of Lower the operand begins where the node began.
LEMMA ResumedLower ==
  ASSUME IInv, Heights, NEW site \in Lower, Resume(site), plain'
  PROVE  /\ instructions \in Seq(Instruction)
         /\ callers \in Seq(Activation)
         /\ \E h, b : /\ Held(instructions, callers, Own(callers), Starts(callers), h, b)
                      /\ h[Len(instructions)] = b[Len(callers)] + 1
                      /\ b[Len(callers)] \in Nat
  <1>1. top.site \in Lower
    BY DEF Resume
  <1>2. Offset(top) = 0 /\ site \notin PatchSites
    BY <1>1, LowerOffset DEF Resume
  <1>3. PICK h, b : /\ Held(instructions, callers, Own(callers), Starts(callers), h, b)
                    /\ h[Len(instructions)] = b[Len(callers)] + Offset(top) + 1
                    /\ b[Len(callers)] \in Nat
    BY <1>2, ResumedSimple
  <1>4. h[Len(instructions)] = b[Len(callers)] + 1
    BY <1>2, <1>3
  <1>. QED  BY <1>2, <1>3, <1>4, ResumedSimple

\* An activation that owns a jump waits for its next operand.
Owning(code, stk, a, h, b) ==
  /\ code \in Seq(Instruction) /\ stk \in Seq(Activation) /\ a \in Activation
  /\ Owns(a) /\ ~Logical(a)
  /\ a.jump \in Addr(code) /\ code[a.jump + 1].op \in Jumps
  /\ h[a.jump] + Lift(code[a.jump + 1]) =
       IF Alternative(a) THEN b[Len(stk)] + 1 ELSE b[Len(stk)]
  /\ Repeating(a) => a.start \in 0 .. Len(code) /\ h[a.start] = b[Len(stk)]
  /\ Held(code, stk, Own(stk) \cup {a.jump},
          Starts(stk) \cup (IF Function(a) THEN {a.start} ELSE {}), h, b)
  /\ h[Len(code)] = IF Function(a) THEN 0 ELSE b[Len(stk)]

LEMMA OwningUpright ==
  ASSUME NEW code, NEW stk, NEW a, NEW h, NEW b, Owning(code, stk, a, h, b)
  PROVE  Upright(code, Append(stk, a), 0)
  <1>. DEFINE low == b[Len(stk)]  high == h[Len(code)]
              own == Own(stk) \cup {a.jump}
              starts == Starts(stk) \cup (IF Function(a) THEN {a.start} ELSE {})
  <1>1. /\ code \in Seq(Instruction) /\ stk \in Seq(Activation) /\ a \in Activation
        /\ Owns(a) /\ Held(code, stk, own, starts, h, b)
    BY DEF Owning
  <1>2. low \in Nat /\ high \in Nat
    BY <1>1, HeldTop
  <1>3. Awaits(code, a, h, low, high)
    <2>1. /\ ~Logical(a)
          /\ a.jump \in Addr(code) /\ code[a.jump + 1].op \in Jumps
          /\ h[a.jump] + Lift(code[a.jump + 1]) = IF Alternative(a) THEN low + 1 ELSE low
          /\ Repeating(a) => a.start \in 0 .. Len(code) /\ h[a.start] = low
          /\ high = IF Function(a) THEN 0 ELSE low
      BY DEF Owning
    <2>. HIDE DEF low, high
    <2>. QED  BY <1>1, <1>2, <2>1, OwnerAwaits
  <1>. HIDE DEF low, high
  <1>4. Waiting(code, stk, h, b, a, high)
    BY <1>1, <1>2, <1>3 DEF Waiting, Held, low
  <1>5. own = Own(stk) \cup (IF Owns(a) THEN {a.jump} ELSE {})
    BY <1>1
  <1>6. starts = Starts(stk) \cup (IF Function(a) THEN {a.start} ELSE {})
    OBVIOUS
  <1>. HIDE DEF own, starts
  <1>7. Ready(code, stk, own, starts, h, b, a, high)
    BY <1>1, <1>4, <1>5, <1>6 DEF Ready, high
  <1>. QED  BY <1>7, OwnerUpright

LEMMA CondPredHeights ==
  ASSUME IInv, Heights, CondPred
  PROVE  Heights'
  <1>. DEFINE c == At("cond cons")  n == Len(instructions)  a == [c EXCEPT !.jump = n]
              code2 == Append(instructions, Jof)
  <1>1. /\ Resume("cond pred") /\ instructions' = code2 /\ Continue(a)
    BY DEF CondPred, nextInstrAddr, addInstr, Jof
  <1>2. n \in Nat /\ instructions \in Seq(Instruction)
    BY DEF IInv, TypeOK
  <1>3. c \in Activation /\ c.site = "cond cons"
    BY AtType DEF Sites
  <1>. HIDE DEF c
  <1>4. a \in Activation /\ a.jump = n /\ a.site = "cond cons"
    <2>. HIDE DEF n
    <2>. QED  BY <1>2, <1>3, AmendJump
  <1>. HIDE DEF a
  <1>5. Owns(a) /\ ~Logical(a) /\ ~Alternative(a) /\ ~Function(a) /\ ~Repeating(a)
    BY <1>4 DEF Owns, PatchSites, Logical, Alternative, Function, Repeating
  <1>6. mode' = "compile" /\ stack' = Append(callers, a)
    BY <1>1 DEF Continue
  <1>7. ASSUME plain' PROVE Upright(code2, Append(callers, a), 0)
    <2>1. "cond pred" \in Lower
      BY DEF Lower
    <2>2. PICK h, b : /\ Held(instructions, callers, Own(callers), Starts(callers), h, b)
                      /\ h[Len(instructions)] = b[Len(callers)] + 1
                      /\ b[Len(callers)] \in Nat
      BY <1>1, <1>7, <2>1, ResumedLower
    <2>. DEFINE low == b[Len(callers)]
    <2>3. callers \in Seq(Activation)
      BY <1>1, <1>7, <2>1, ResumedLower
    <2>4. low \in Nat /\ h[n] = low + 1
      BY <2>2
    <2>5. PICK h2 : /\ Held(code2, callers, Own(callers) \cup {n}, Starts(callers), h2, b)
                    /\ Same(n, h, h2)
                    /\ h2[n + 1] = low
      <3>1. Testing(instructions, callers, Own(callers), Starts(callers), h, b, low)
        BY <1>2, <2>2, <2>4 DEF Testing
      <3>. HIDE DEF low
      <3>2. \E h2 : /\ Held(Append(instructions, Jof), callers, Own(callers) \cup {Len(instructions)},
                           Starts(callers), h2, b)
                    /\ Same(Len(instructions), h, h2)
                    /\ h2[Len(instructions) + 1] = low
        <4>1. Tested(instructions, callers, Own(callers), Starts(callers), h, b, low)
          BY <3>1, HeldJof
        <4>. QED  BY <4>1 DEF Tested
      <3>. QED  BY <3>2
    <2>6. /\ code2 \in Seq(Instruction) /\ Len(code2) = n + 1
          /\ code2[n + 1] = Jof /\ n \in Addr(code2)
      <3>1. Addr(code2) = Addr(instructions) \cup {n}
        BY <1>2, JumpFacts, AppendFacts
      <3>. QED  BY <1>2, <3>1, JumpFacts, AppendFacts
    <2>. HIDE DEF code2
    <2>7. h2[n] + Lift(code2[n + 1]) = low
      <3>1. h2[n] = low + 1
        <4>1. n \in 0 .. n
          BY <1>2
        <4>. QED  BY <2>4, <2>5, <4>1 DEF Same
      <3>. QED  BY <2>4, <2>6, <3>1, JumpFacts
    <2>8. h2[Len(code2)] = low
      BY <2>5, <2>6
    <2>9. Starts(callers) \cup (IF Function(a) THEN {a.start} ELSE {}) = Starts(callers)
      BY <1>5
    <2>10. Owning(code2, callers, a, h2, b)
      BY <1>4, <1>5, <2>3, <2>5, <2>6, <2>7, <2>8, <2>9, JumpFacts DEF Owning
    <2>. QED  BY <2>10, OwningUpright
  <1>. QED  BY <1>1, <1>6, <1>7, Rising

LEMMA CondConsHeights ==
  ASSUME IInv, Heights, CondCons
  PROVE  Heights'
  <1>. DEFINE n == Len(instructions)  jump == top.jump  c == At("cond alt")
              a == [c EXCEPT !.jump = n]  ldc == Instr("Ldc")
              code == patchJump(Append(instructions, Goto), jump, n + 1)
              code3 == Append(code, ldc)
  <1>1. /\ Resume("cond cons")
        /\ \/ instructions' = code /\ Continue(a)
           \/ instructions' = patchJump(code3, n, n + 1 + 1) /\ Finish
    BY DEF CondCons, nextInstrAddr, Goto
  <1>2. n \in Nat /\ instructions \in Seq(Instruction)
    BY DEF IInv, TypeOK
  <1>3. c \in Activation /\ c.site = "cond alt"
    BY AtType DEF Sites
  <1>. HIDE DEF c
  <1>4. a \in Activation /\ a.jump = n /\ a.site = "cond alt"
    <2>. HIDE DEF n
    <2>. QED  BY <1>2, <1>3, AmendJump
  <1>. HIDE DEF a
  <1>5. Owns(a) /\ ~Logical(a) /\ Alternative(a) /\ ~Function(a) /\ ~Repeating(a)
    BY <1>4 DEF Owns, PatchSites, Logical, Alternative, Function, Repeating
  <1>6. top.site = "cond cons"
    BY <1>1 DEF Resume
  <1>7. Patches(top) /\ ~Alternative(top)
    BY <1>6 DEF Patches, Alternative
  <1>8. ASSUME plain'
        PROVE  \E h, b :
                 /\ code \in Seq(Instruction) /\ Len(code) = n + 1 /\ code[n + 1] = Goto
                 /\ callers \in Seq(Activation) /\ Own(callers) \subseteq Addr(instructions)
                 /\ Held(code, callers, Own(callers) \cup {n}, Starts(callers), h, b)
                 /\ h[n] = b[Len(callers)] + 1
                 /\ h[n + 1] = b[Len(callers)]
                 /\ b[Len(callers)] \in Nat
    <2>1. /\ callers \in Seq(Activation)
          /\ jump \notin Own(callers)
          /\ Own(callers) \cup {jump} \subseteq Addr(instructions)
          /\ instructions[jump + 1].op \in Jumps
      BY <1>1, <1>7, <1>8, ResumedJump
    <2>2. PICK h, b :
            /\ Held(instructions, callers, Own(callers) \cup {jump}, Starts(callers), h, b)
            /\ h[n] = b[Len(callers)] + 1
            /\ b[Len(callers)] \in Nat
            /\ h[jump] + Lift(instructions[jump + 1]) =
                 IF Alternative(top) THEN b[Len(callers)] + 1 ELSE b[Len(callers)]
      BY <1>1, <1>7, <1>8, ResumedJump
    <2>. DEFINE low == b[Len(callers)]  own == Own(callers) \cup {jump}
                own2 == Own(callers) \cup {n}  starts == Starts(callers)
    <2>3. n \notin Own(callers)
      BY <1>2, <2>1 DEF Addr
    <2>4. own2 \ {n} = own \ {jump} /\ jump \in own /\ n \in own2 /\ own \subseteq Addr(instructions)
      BY <2>1, <2>3
    <2>5. low = h[jump] + Lift(instructions[jump + 1]) /\ low \in Nat
      BY <1>7, <2>2
    <2>6. Held(instructions, callers, own, starts, h, b)
      BY <2>2
    <2>. HIDE DEF low, own, own2, starts
    <2>7. /\ Turning(instructions, Goto, jump, own, own2, starts, h, low)
          /\ Waits(instructions, callers, h, b)
      BY <1>2, <2>1, <2>4, <2>5, <2>6, JumpFacts DEF Turning, Held, Branches
    <2>8. LET turned == patchJump(Append(instructions, Goto), jump, Len(instructions) + 1)
          IN  /\ turned \in Seq(Instruction)
              /\ Len(turned) = Len(instructions) + 1
              /\ turned[Len(instructions) + 1] = Goto
              /\ \E h2 : /\ Held(turned, callers, own2, starts, h2, b)
                         /\ Same(Len(instructions), h, h2)
                         /\ h2[Len(instructions) + 1] = low
      BY <2>7, HeldTurn
    <2>9. PICK h2 : /\ Held(code, callers, own2, starts, h2, b)
                    /\ Same(n, h, h2)
                    /\ h2[n + 1] = low
      BY <2>8
    <2>10. n \in 0 .. n
      BY <1>2
    <2>11. h2[n] = h[n]
      BY <2>9, <2>10 DEF Same
    <2>. QED  BY <2>1, <2>2, <2>8, <2>9, <2>11 DEF own2, starts, low
  <1>. HIDE DEF code
  <1>9. ASSUME plain', instructions' = code PROVE Upright(code, Append(callers, a), 0)
    <2>1. PICK h, b :
                 /\ code \in Seq(Instruction) /\ Len(code) = n + 1 /\ code[n + 1] = Goto
                 /\ callers \in Seq(Activation)
                 /\ Held(code, callers, Own(callers) \cup {n}, Starts(callers), h, b)
                 /\ h[n] = b[Len(callers)] + 1
                 /\ h[n + 1] = b[Len(callers)]
                 /\ b[Len(callers)] \in Nat
      BY <1>8, <1>9
    <2>2. Starts(callers) \cup (IF Function(a) THEN {a.start} ELSE {}) = Starts(callers)
      BY <1>5
    <2>3. n \in Addr(code)
      BY <1>2, <2>1 DEF Addr
    <2>4. h[n] + Lift(code[n + 1]) = b[Len(callers)] + 1
      BY <2>1, JumpFacts
    <2>. HIDE DEF n
    <2>5. Owning(code, callers, a, h, b)
      BY <1>4, <1>5, <2>1, <2>2, <2>3, <2>4, JumpFacts DEF Owning
    <2>. QED  BY <2>5, OwningUpright
  <1>10. ASSUME plain' PROVE Upright(patchJump(code3, n, n + 1 + 1), callers, 1)
    <2>1. PICK h, b :
                 /\ code \in Seq(Instruction) /\ Len(code) = n + 1 /\ code[n + 1] = Goto
                 /\ callers \in Seq(Activation) /\ Own(callers) \subseteq Addr(instructions)
                 /\ Held(code, callers, Own(callers) \cup {n}, Starts(callers), h, b)
                 /\ h[n] = b[Len(callers)] + 1
                 /\ h[n + 1] = b[Len(callers)]
                 /\ b[Len(callers)] \in Nat
      BY <1>8, <1>10
    <2>. DEFINE low == b[Len(callers)]  own == Own(callers) \cup {n}  starts == Starts(callers)
    <2>2. Level(ldc) /\ Lift(ldc) = 1
      BY LiftInstr DEF Opcodes
    <2>3. h[Len(code)] + Lift(ldc) = low + 1 /\ low + 1 \in Nat
      BY <2>1, <2>2
    <2>4. Held(code, callers, own, starts, h, b)
      BY <2>1
    <2>. HIDE DEF own, starts, low, ldc
    <2>5. PICK h3 : /\ Held(code3, callers, own, starts, h3, b)
                    /\ Same(Len(code), h, h3)
                    /\ h3[Len(code3)] = low + 1
      BY <2>1, <2>2, <2>3, <2>4, HeldLevel
    <2>6. /\ code3 \in Seq(Instruction) /\ Len(code3) = n + 1 + 1
          /\ code3[n + 1] = Goto /\ n \in Addr(code3)
      <3>1. ldc \in Instruction
        BY <2>2 DEF Level
      <3>2. n \in Addr(code)
        BY <1>2, <2>1 DEF Addr
      <3>3. /\ code3 \in Seq(Instruction) /\ Len(code3) = Len(code) + 1
            /\ Addr(code3) = Addr(code) \cup {Len(code)}
            /\ \A x \in Addr(code) : code3[x + 1] = code[x + 1]
        BY <2>1, <3>1, AppendFacts
      <3>. HIDE DEF code3, n
      <3>. QED  BY <2>1, <3>2, <3>3
    <2>7. h3[n] = low + 1
      <3>1. n \in 0 .. Len(code)
        BY <1>2, <2>1
      <3>. QED  BY <2>1, <2>5, <3>1 DEF Same, low
    <2>. HIDE DEF code3
    <2>8. h3[Len(code3)] = h3[n] + Lift(code3[n + 1])
      BY <2>3, <2>5, <2>6, <2>7, JumpFacts
    <2>9. n \in own /\ own \ {n} = Own(callers)
      BY <1>2, <2>1 DEF own, Addr
    <2>10. Held(patchJump(code3, n, n + 1 + 1), callers, own \ {n}, starts, h3, b)
      <3>. DEFINE t == n + 1 + 1
      <3>1. t = Len(code3)
        BY <2>6
      <3>2. code3[n + 1].op \in Jumps
        BY <2>6, JumpFacts
      <3>3. Held(patchJump(code3, n, Len(code3)), callers, own \ {n}, starts, h3, b)
        <4>. HIDE DEF n
        <4>. QED  BY <2>5, <2>6, <2>8, <2>9, <3>2, HeldPatch
      <3>. HIDE DEF t
      <3>4. Held(patchJump(code3, n, t), callers, own \ {n}, starts, h3, b)
        BY <3>1, <3>3
      <3>. QED  BY <3>4 DEF t
    <2>11. Len(patchJump(code3, n, n + 1 + 1)) = Len(code3)
      BY <2>6 DEF patchJump
    <2>12. h3[Len(patchJump(code3, n, n + 1 + 1))] = b[Len(callers)] + 1
      BY <2>5, <2>11 DEF low
    <2>. HIDE DEF n
    <2>. QED  BY <2>9, <2>10, <2>12 DEF Upright, starts
  <1>11. CASE instructions' = code /\ Continue(a)
    <2>1. mode' = "compile" /\ stack' = Append(callers, a)
      BY <1>11 DEF Continue
    <2>. QED  BY <1>9, <1>11, <2>1, Rising
  <1>12. CASE instructions' = patchJump(code3, n, n + 1 + 1) /\ Finish
    <2>1. mode' = "return" /\ stack' = callers
      BY <1>12 DEF Finish
    <2>. QED  BY <1>10, <1>12, <2>1, Rising
  <1>. QED  BY <1>1, <1>11, <1>12

LEMMA CondAltHeights ==
  ASSUME IInv, Heights, CondAlt
  PROVE  Heights'
  <1>. DEFINE n == Len(instructions)  jump == top.jump
  <1>1. Resume("cond alt") /\ instructions' = patchJump(instructions, jump, n) /\ Finish
    BY DEF CondAlt, nextInstrAddr
  <1>2. top.site = "cond alt"
    BY <1>1 DEF Resume
  <1>3. Patches(top) /\ Alternative(top)
    BY <1>2 DEF Patches, Alternative
  <1>4. ASSUME plain' PROVE Upright(instructions', callers, 1)
    <2>1. /\ instructions \in Seq(Instruction) /\ callers \in Seq(Activation)
          /\ jump \notin Own(callers)
          /\ Own(callers) \cup {jump} \subseteq Addr(instructions)
          /\ instructions[jump + 1].op \in Jumps
      BY <1>1, <1>3, <1>4, ResumedJump
    <2>2. PICK h, b :
            /\ Held(instructions, callers, Own(callers) \cup {jump}, Starts(callers), h, b)
            /\ h[n] = b[Len(callers)] + 1
            /\ b[Len(callers)] \in Nat
            /\ h[jump] + Lift(instructions[jump + 1]) =
                 IF Alternative(top) THEN b[Len(callers)] + 1 ELSE b[Len(callers)]
      BY <1>1, <1>3, <1>4, ResumedJump
    <2>. DEFINE own == Own(callers) \cup {jump}  starts == Starts(callers)  code == instructions
    <2>3. /\ own \ {jump} = Own(callers) /\ jump \in own
          /\ jump \in Addr(code) /\ code[jump + 1].op \in Jumps
          /\ h[Len(code)] = h[jump] + Lift(code[jump + 1])
          /\ Held(code, callers, own, starts, h, b)
      BY <1>3, <2>1, <2>2
    <2>4. /\ Held(patchJump(code, jump, Len(code)), callers, own \ {jump}, starts, h, b)
          /\ Len(patchJump(code, jump, Len(code))) = Len(code)
      <3>1. code \in Seq(Instruction)
        BY <2>1
      <3>. HIDE DEF own, starts, code, jump
      <3>. QED  BY <2>3, <3>1, HeldPatch
    <2>5. /\ Held(instructions', callers, Own(callers), Starts(callers), h, b)
          /\ Len(instructions') = n
      BY <1>1, <2>3, <2>4
    <2>. QED  BY <2>2, <2>5 DEF Upright
  <1>5. mode' = "return" /\ stack' = callers
    BY <1>1 DEF Finish
  <1>. QED  BY <1>4, <1>5, Rising

LEMMA FnDeclHeights ==
  ASSUME IInv, Heights, compileFnDecl
  PROVE  Heights'
  <1>. DEFINE n == Len(instructions)  s == n + 1  code == Append(instructions, Goto)
              ldc == Instr("Ldc")  code2 == Append(code, ldc)  a == FunAt(n, s)
  <1>1. /\ Node("fun")
        /\ \/ instructions' = code /\ Call(a)
           \/ instructions' = FnDeclEnd(code2, n, s) /\ Return
    BY DEF compileFnDecl, nextInstrAddr, Goto, FunAt
  <1>2. n \in Nat /\ s \in Nat /\ instructions \in Seq(Instruction)
    BY DEF IInv, TypeOK
  <1>3. a \in Activation /\ a.jump = n /\ a.start = s /\ a.site = "fun"
    <2>. HIDE DEF n, s
    <2>. QED  BY <1>2, FunAtType
  <1>. HIDE DEF a
  <1>4. Owns(a) /\ ~Logical(a) /\ ~Alternative(a) /\ Function(a) /\ ~Repeating(a)
    BY <1>3 DEF Owns, PatchSites, Logical, Alternative, Function, Repeating
  <1>5. /\ code \in Seq(Instruction) /\ Len(code) = n + 1
        /\ code[n + 1] = Goto /\ Addr(code) = Addr(instructions) \cup {n}
        /\ n \notin Addr(instructions)
    BY <1>2, JumpFacts, AppendFacts
  <1>. HIDE DEF code
  <1>6. ASSUME plain'
        PROVE  \E h, b :
                 /\ stack \in Seq(Activation) /\ Own(stack) \subseteq Addr(instructions)
                 /\ Held(code, stack, Own(stack) \cup {n}, Starts(stack) \cup {s}, h, b)
                 /\ h[n] = b[Len(stack)]
                 /\ h[n + 1] = 0
                 /\ b[Len(stack)] \in Nat
    <2>1. /\ stack \in Seq(Activation) /\ Own(stack) \subseteq Addr(instructions)
          /\ \E h, b : /\ Held(instructions, stack, Own(stack), Starts(stack), h, b)
                       /\ h[Len(instructions)] = b[Len(stack)]
                       /\ b[Len(stack)] \in Nat
      BY <1>1, <1>6, ChosenHeld
    <2>2. PICK h, b : /\ Held(instructions, stack, Own(stack), Starts(stack), h, b)
                      /\ h[n] = b[Len(stack)]
                      /\ b[Len(stack)] \in Nat
      BY <2>1
    <2>3. Passed(instructions, stack, Own(stack), Starts(stack), h, b)
      BY <1>2, <2>2, HeldOver
    <2>4. PICK h2 : /\ Held(code, stack, Own(stack) \cup {n}, Starts(stack) \cup {s}, h2, b)
                    /\ Same(n, h, h2)
                    /\ h2[n + 1] = 0
      BY <2>3 DEF Passed, code
    <2>5. n \in 0 .. n
      BY <1>2
    <2>6. h2[n] = h[n]
      BY <2>4, <2>5 DEF Same
    <2>. QED  BY <2>1, <2>2, <2>4, <2>6
  <1>7. ASSUME plain' PROVE Upright(code, Append(stack, a), 0)
    <2>1. PICK h, b :
                 /\ stack \in Seq(Activation)
                 /\ Held(code, stack, Own(stack) \cup {n}, Starts(stack) \cup {s}, h, b)
                 /\ h[n] = b[Len(stack)]
                 /\ h[n + 1] = 0
                 /\ b[Len(stack)] \in Nat
      BY <1>6, <1>7
    <2>2. Starts(stack) \cup (IF Function(a) THEN {a.start} ELSE {}) = Starts(stack) \cup {s}
      BY <1>3, <1>4
    <2>3. h[n] + Lift(code[n + 1]) = b[Len(stack)]
      BY <1>5, <2>1, JumpFacts
    <2>4. n \in Addr(code) /\ h[Len(code)] = 0
      BY <1>5, <2>1
    <2>. HIDE DEF n, s
    <2>5. Owning(code, stack, a, h, b)
      BY <1>3, <1>4, <1>5, <2>1, <2>2, <2>3, <2>4, JumpFacts DEF Owning
    <2>. QED  BY <2>5, OwningUpright
  <1>8. ASSUME plain' PROVE Upright(FnDeclEnd(code2, n, s), stack, 1)
    <2>1. PICK h, b :
                 /\ stack \in Seq(Activation) /\ Own(stack) \subseteq Addr(instructions)
                 /\ Held(code, stack, Own(stack) \cup {n}, Starts(stack) \cup {s}, h, b)
                 /\ h[n] = b[Len(stack)]
                 /\ h[n + 1] = 0
                 /\ b[Len(stack)] \in Nat
      BY <1>6, <1>8
    <2>. DEFINE own == Own(stack) \cup {n}  starts == Starts(stack) \cup {s}
    <2>2. Level(ldc) /\ Lift(ldc) = 1
      BY LiftInstr DEF Opcodes
    <2>3. h[Len(code)] + Lift(ldc) = 1
      BY <1>5, <2>1, <2>2
    <2>4. Held(code, stack, own, starts, h, b)
      BY <2>1
    <2>. HIDE DEF own, starts, ldc
    <2>5. PICK h3 : /\ Held(code2, stack, own, starts, h3, b)
                    /\ Same(Len(code), h, h3)
                    /\ h3[Len(code2)] = 1
      BY <1>5, <2>2, <2>3, <2>4, HeldLevel
    <2>6. /\ code2 \in Seq(Instruction)
          /\ code2[n + 1] = Goto /\ Addr(code2) = Addr(code) \cup {n + 1}
      <3>1. ldc \in Instruction
        BY <2>2 DEF Level
      <3>2. n \in Addr(code)
        BY <1>5
      <3>3. /\ code2 \in Seq(Instruction) /\ Len(code2) = Len(code) + 1
            /\ Addr(code2) = Addr(code) \cup {Len(code)}
            /\ \A x \in Addr(code) : code2[x + 1] = code[x + 1]
        BY <1>5, <3>1, AppendFacts
      <3>. HIDE DEF code2, n
      <3>. QED  BY <1>5, <3>2, <3>3
    <2>7. h3[n] = b[Len(stack)]
      <3>1. n \in 0 .. Len(code)
        BY <1>2, <1>5
      <3>. QED  BY <2>1, <2>5, <3>1 DEF Same
    <2>. HIDE DEF code2
    <2>8. h3[n] + Lift(code2[n + 1]) = b[Len(stack)]
      BY <2>1, <2>6, <2>7, JumpFacts
    <2>9. /\ n \notin Own(stack) /\ Own(stack) \cup {n} \subseteq Addr(code2)
      BY <1>5, <2>1, <2>6
    <2>10. Ending(code2, stack, h3, b, n, s)
      <3>. HIDE DEF n, s
      <3>. QED  BY <1>2, <2>1, <2>5, <2>6, <2>8, <2>9, JumpFacts DEF Ending, own, starts
    <2>. QED  BY <2>10, EndUpright
  <1>9. CASE instructions' = code /\ Call(a)
    <2>1. mode' = "compile" /\ stack' = Append(stack, a)
      BY <1>9 DEF Call
    <2>. QED  BY <1>7, <1>9, <2>1, Rising
  <1>10. CASE instructions' = FnDeclEnd(code2, n, s) /\ Return
    <2>1. mode' = "return" /\ stack' = stack
      BY <1>10 DEF Return
    <2>. QED  BY <1>8, <1>10, <2>1, Rising
  <1>. QED  BY <1>1, <1>9, <1>10

LEMMA FnBodyHeights ==
  ASSUME IInv, Heights, FnBody
  PROVE  Heights'
  <1>1. Resume("fun") /\ instructions' = FnDeclEnd(instructions, top.jump, top.start) /\ Finish
    BY DEF FnBody
  <1>2. top.site = "fun" /\ "fun" \in PatchSites
    BY <1>1 DEF Resume, PatchSites
  <1>3. Function(top) /\ ~Alternative(top) /\ Owns(top)
    BY <1>2 DEF Function, Alternative, Owns
  <1>4. ASSUME plain' PROVE Upright(instructions', callers, 1)
    <2>1. /\ instructions \in Seq(Instruction)
          /\ callers \in Seq(Activation)
          /\ top \in Activation
          /\ top.jump \notin Own(callers)
          /\ Own(callers) \cup {top.jump} \subseteq Addr(instructions)
      BY <1>1, <1>2, <1>4, ResumedOwner
    <2>2. PICK h, b, high :
              /\ Held(instructions, callers, Own(callers) \cup {top.jump},
                      Starts(callers) \cup (IF Function(top) THEN {top.start} ELSE {}), h, b)
              /\ Awaits(instructions, top, h, b[Len(callers)], high)
              /\ h[Len(instructions)] = high + 1
              /\ high \in Nat
              /\ b[Len(callers)] \in Nat
      BY <1>1, <1>2, <1>4, ResumedOwner
    <2>3. Starts(callers) \cup (IF Function(top) THEN {top.start} ELSE {})
            = Starts(callers) \cup {top.start}
      BY <1>3
    <2>4. /\ high = 0
          /\ instructions[top.jump + 1].op \in Jumps
          /\ h[top.jump] + Lift(instructions[top.jump + 1]) = b[Len(callers)]
      BY <1>3, <2>2 DEF Awaits
    <2>5. h[Len(instructions)] = 1 /\ top.start \in Nat
      BY <2>1, <2>2, <2>4 DEF Activation
    <2>6. Ending(instructions, callers, h, b, top.jump, top.start)
      BY <2>1, <2>2, <2>3, <2>4, <2>5 DEF Ending
    <2>. QED  BY <1>1, <2>6, EndUpright
  <1>5. mode' = "return" /\ stack' = callers
    BY <1>1 DEF Finish
  <1>. QED  BY <1>4, <1>5, Rising

LEMMA WhileLoopHeights ==
  ASSUME IInv, Heights, WhileLoop
  PROVE  Heights'
  <1>. DEFINE n == Len(instructions)  c == At("while pred")  a == [c EXCEPT !.start = n]
  <1>1. Node("while_loop") /\ Call(a) /\ instructions' = instructions
    BY DEF WhileLoop, nextInstrAddr
  <1>2. n \in Nat /\ instructions \in Seq(Instruction)
    BY DEF IInv, TypeOK
  <1>3. c \in Activation /\ c.site = "while pred"
    BY AtType DEF Sites
  <1>. HIDE DEF c
  <1>4. a \in Activation /\ a.start = n /\ a.site = "while pred"
    <2>. HIDE DEF n
    <2>. QED  BY <1>2, <1>3, AmendJump
  <1>. HIDE DEF a
  <1>5. ~Owns(a) /\ ~Logical(a) /\ ~Function(a) /\ a.site # "app" /\ a.site # "return"
        /\ a.site \notin Upper
    BY <1>4 DEF Owns, PatchSites, Logical, Function, Upper
  <1>6. Offset(a) = 0
    BY <1>5, Zenon DEF Offset, Upper
  <1>7. ASSUME plain' PROVE Upright(instructions, Append(stack, a), 0)
    <2>1. /\ stack \in Seq(Activation)
          /\ \E h, b : /\ Held(instructions, stack, Own(stack), Starts(stack), h, b)
                       /\ h[Len(instructions)] = b[Len(stack)]
                       /\ b[Len(stack)] \in Nat
      BY <1>1, <1>7, ChosenHeld
    <2>2. PICK h, b : /\ Held(instructions, stack, Own(stack), Starts(stack), h, b)
                      /\ h[n] = b[Len(stack)]
                      /\ b[Len(stack)] \in Nat
      BY <2>1
    <2>. DEFINE low == b[Len(stack)]
    <2>3. low + Offset(a) = low
      BY <1>6, <2>2
    <2>4. a.start \in 0 .. Len(instructions) /\ h[a.start] = low
      <3>1. n \in 0 .. Len(instructions)
        BY <1>2
      <3>2. h[n] = low
        BY <2>2
      <3>. HIDE DEF n, low
      <3>. QED  BY <1>4, <3>1, <3>2
    <2>5. low \in Nat /\ h[Len(instructions)] = low
      BY <2>2
    <2>. HIDE DEF low
    <2>6. Awaits(instructions, a, h, low, low)
      BY <1>5, <2>3, <2>4, Zenon DEF Awaits
    <2>7. Waiting(instructions, stack, h, b, a, low)
      BY <1>4, <2>1, <2>2, <2>5, <2>6 DEF Waiting, Held, low
    <2>8. /\ Own(stack) = Own(stack) \cup (IF Owns(a) THEN {a.jump} ELSE {})
          /\ Starts(stack) = Starts(stack) \cup (IF Function(a) THEN {a.start} ELSE {})
      BY <1>5
    <2>9. Ready(instructions, stack, Own(stack), Starts(stack), h, b, a, low)
      BY <2>2, <2>5, <2>7, <2>8 DEF Ready
    <2>. QED  BY <2>9, OwnerUpright
  <1>8. mode' = "compile" /\ stack' = Append(stack, a)
    BY <1>1 DEF Call
  <1>. QED  BY <1>1, <1>7, <1>8, Rising

LEMMA WhilePredHeights ==
  ASSUME IInv, Heights, WhilePred
  PROVE  Heights'
  <1>. DEFINE n == Len(instructions)  s == top.start  a == LoopAt(s, n)
              code2 == Append(instructions, Jof)
  <1>1. /\ Resume("while pred") /\ instructions' = code2 /\ Continue(a)
    BY DEF WhilePred, nextInstrAddr, addInstr, Jof, LoopAt
  <1>2. n \in Nat /\ instructions \in Seq(Instruction)
    BY DEF IInv, TypeOK
  <1>3. top.site = "while pred" /\ top \in Activation
    BY <1>1, Resumed
  <1>4. s \in Nat
    BY <1>3 DEF Activation
  <1>5. a \in Activation /\ a.jump = n /\ a.start = s /\ a.site = "while body"
    <2>. HIDE DEF n, s
    <2>. QED  BY <1>2, <1>4, LoopAtType
  <1>. HIDE DEF a
  <1>6. Owns(a) /\ ~Logical(a) /\ ~Alternative(a) /\ ~Function(a)
    BY <1>5 DEF Owns, PatchSites, Logical, Alternative, Function, Repeating
  <1>7. /\ ~Owns(top) /\ ~Function(top) /\ Repeating(top) /\ "while pred" \notin PatchSites
        /\ top.site # "app" /\ top.site \notin Upper
    BY <1>3 DEF Owns, PatchSites, Function, Repeating, Upper
  <1>8. ASSUME plain' PROVE Upright(code2, Append(callers, a), 0)
    <2>1. callers \in Seq(Activation)
      BY <1>1, Resumed
    <2>2. PICK h, b :
            /\ Held(instructions, callers, Own(callers), Starts(callers), h, b)
            /\ h[n] = b[Len(callers)] + 1
            /\ b[Len(callers)] \in Nat
            /\ s \in 0 .. n /\ h[s] = b[Len(callers)]
      <3>1. PICK h, b, high :
              /\ Held(instructions, callers,
                      Own(callers) \cup (IF Owns(top) THEN {top.jump} ELSE {}),
                      Starts(callers) \cup (IF Function(top) THEN {top.start} ELSE {}), h, b)
              /\ Awaits(instructions, top, h, b[Len(callers)], high)
              /\ h[Len(instructions)] = high + 1
              /\ high \in Nat
              /\ b[Len(callers)] \in Nat
        BY <1>1, <1>8, ResumedHeld
      <3>2. /\ Own(callers) \cup (IF Owns(top) THEN {top.jump} ELSE {}) = Own(callers)
            /\ Starts(callers) \cup (IF Function(top) THEN {top.start} ELSE {}) = Starts(callers)
        BY <1>7
      <3>3. Offset(top) = 0
        BY <1>7, Zenon DEF Offset, Upper
      <3>4. high = b[Len(callers)] + Offset(top) /\ s \in 0 .. n /\ h[s] = b[Len(callers)]
        BY <1>7, <3>1 DEF Awaits
      <3>5. high = b[Len(callers)]
        BY <3>1, <3>3, <3>4
      <3>. QED  BY <3>1, <3>2, <3>4, <3>5
    <2>. DEFINE low == b[Len(callers)]
    <2>3. low \in Nat /\ h[n] = low + 1
      BY <2>2
    <2>4. PICK h2 : /\ Held(code2, callers, Own(callers) \cup {n}, Starts(callers), h2, b)
                    /\ Same(n, h, h2)
                    /\ h2[n + 1] = low
      <3>1. Testing(instructions, callers, Own(callers), Starts(callers), h, b, low)
        BY <1>2, <2>2, <2>3 DEF Testing
      <3>. HIDE DEF low
      <3>2. Tested(instructions, callers, Own(callers), Starts(callers), h, b, low)
        BY <3>1, HeldJof
      <3>. QED  BY <3>2 DEF Tested
    <2>5. /\ code2 \in Seq(Instruction) /\ Len(code2) = n + 1
          /\ code2[n + 1] = Jof /\ n \in Addr(code2)
      <3>1. Addr(code2) = Addr(instructions) \cup {n}
        BY <1>2, JumpFacts, AppendFacts
      <3>. QED  BY <1>2, <3>1, JumpFacts, AppendFacts
    <2>. HIDE DEF code2
    <2>6. h2[n] = low + 1 /\ h2[s] = low
      <3>1. n \in 0 .. n
        BY <1>2
      <3>. QED  BY <2>2, <2>3, <2>4, <3>1 DEF Same
    <2>7. h2[n] + Lift(code2[n + 1]) = low
      BY <2>3, <2>5, <2>6, JumpFacts
    <2>8. h2[Len(code2)] = low
      BY <2>4, <2>5
    <2>9. Starts(callers) \cup (IF Function(a) THEN {a.start} ELSE {}) = Starts(callers)
      BY <1>6
    <2>10. s \in 0 .. Len(code2)
      BY <1>2, <2>2, <2>5
    <2>11. Owning(code2, callers, a, h2, b)
      <3>. HIDE DEF n, s
      <3>. QED  BY <1>5, <1>6, <2>1, <2>4, <2>5, <2>6, <2>7, <2>8, <2>9, <2>10, JumpFacts
                DEF Owning
    <2>. QED  BY <2>11, OwningUpright
  <1>9. mode' = "compile" /\ stack' = Append(callers, a)
    BY <1>1 DEF Continue
  <1>. QED  BY <1>1, <1>8, <1>9, Rising

LEMMA WhileBodyHeights ==
  ASSUME IInv, Heights, WhileBody
  PROVE  Heights'
  <1>. DEFINE n == Len(instructions)  jump == top.jump  s == top.start
              pop == Instr("Pop")  ldc == Instr("Ldc")  back == [op |-> "Goto", arg |-> s]
              code1 == Append(instructions, pop)
              code2 == patchJump(Append(code1, back), jump, Len(code1) + 1)
              code3 == Append(code2, ldc)
  <1>1. Resume("while body") /\ Finish
    BY DEF WhileBody
  <1>2. n \in Nat /\ instructions \in Seq(Instruction)
    BY DEF IInv, TypeOK
  <1>3. top.site = "while body" /\ top \in Activation
    BY <1>1, Resumed
  <1>4. Patches(top) /\ ~Alternative(top) /\ Repeating(top)
    BY <1>3 DEF Patches, Alternative, Repeating
  <1>5. s \in Nat
    BY <1>3 DEF Activation
  <1>6. /\ Level(pop) /\ Lift(pop) = -1 /\ pop \in Instruction
        /\ Level(ldc) /\ Lift(ldc) = 1
        /\ back \in Instruction /\ back.op = "Goto" /\ back.arg = s
    BY <1>5, LiftInstr DEF Opcodes, Level, Instruction
  <1>. HIDE DEF pop, ldc, back
  <1>7. /\ code1 \in Seq(Instruction) /\ Len(code1) = n + 1
        /\ \A x \in Addr(instructions) : code1[x + 1] = instructions[x + 1]
        /\ Addr(code1) = Addr(instructions) \cup {n} /\ Len(code1) \notin Addr(code1)
    <2>1. Len(code1) = n + 1 /\ code1 \in Seq(Instruction)
      BY <1>2, <1>6, AppendFacts
    <2>2. Len(code1) \notin Addr(code1)
      BY <2>1 DEF Addr
    <2>. QED  BY <1>2, <1>6, <2>1, <2>2, AppendFacts
  <1>8. instructions' = code3
    <2>. DEFINE looped == instructions \o <<pop, back>>
    <2>1. instructions' = Append(patchJump(looped, jump, Len(looped)), ldc)
      BY DEF WhileBody, pop, ldc, back
    <2>2. looped = Append(code1, back)
      BY <1>2, <1>6, ConcatTwo
    <2>3. Len(Append(code1, back)) = Len(code1) + 1
      BY <1>6, <1>7, AppendFacts
    <2>. HIDE DEF looped
    <2>. QED  BY <2>1, <2>2, <2>3
  <1>9. ASSUME plain' PROVE Upright(code3, callers, 1)
    <2>1. /\ callers \in Seq(Activation)
          /\ jump \notin Own(callers)
          /\ Own(callers) \cup {jump} \subseteq Addr(instructions)
          /\ instructions[jump + 1].op \in Jumps
      BY <1>1, <1>4, <1>9, ResumedJump
    <2>2. PICK h, b :
            /\ Held(instructions, callers, Own(callers) \cup {jump}, Starts(callers), h, b)
            /\ h[n] = b[Len(callers)] + 1
            /\ b[Len(callers)] \in Nat
            /\ h[jump] + Lift(instructions[jump + 1]) =
                 IF Alternative(top) THEN b[Len(callers)] + 1 ELSE b[Len(callers)]
            /\ s \in 0 .. n /\ h[s] = b[Len(callers)]
      BY <1>1, <1>4, <1>9, ResumedJump
    <2>. DEFINE low == b[Len(callers)]  own == Own(callers) \cup {jump}
                own2 == Own(callers)  starts == Starts(callers)
    <2>3. h[jump] + Lift(instructions[jump + 1]) = low
      BY <1>4, <2>2
    <2>4. Held(instructions, callers, own, starts, h, b) /\ h[n] + Lift(pop) = low /\ low \in Nat
      BY <1>6, <2>2
    <2>5. /\ own2 \ {Len(code1)} = own \ {jump} /\ jump \in own
          /\ own \subseteq Addr(code1) /\ jump \in Addr(instructions)
      BY <1>7, <2>1
    <2>6. b[Len(callers)] = low
      OBVIOUS
    <2>. HIDE DEF low, own, own2, starts
    <2>7. PICK h1 : /\ Held(code1, callers, own, starts, h1, b)
                    /\ Same(n, h, h1)
                    /\ h1[Len(code1)] = low
      BY <1>2, <1>6, <2>4, HeldLevel
    <2>8. h1[jump] = h[jump] /\ h1[s] = h[s]
      <3>1. jump \in 0 .. n
        BY <1>2, <2>5 DEF Addr
      <3>. QED  BY <2>2, <2>7, <3>1 DEF Same
    <2>9. low = h1[jump] + Lift(code1[jump + 1]) /\ code1[jump + 1].op \in Jumps
      <3>. HIDE DEF code1
      <3>. QED  BY <1>7, <2>1, <2>3, <2>5, <2>8
    <2>10. s \in 0 .. Len(code1) /\ h1[s] = h1[Len(code1)]
      <3>1. s \in 0 .. Len(code1)
        BY <1>2, <1>7, <2>2
      <3>. QED  BY <2>2, <2>6, <2>7, <2>8, <3>1
    <2>11. /\ Turning(code1, back, jump, own, own2, starts, h1, low)
           /\ Waits(code1, callers, h1, b)
      <3>. HIDE DEF code1, s, jump
      <3>. QED  BY <1>6, <1>7, <2>4, <2>5, <2>7, <2>9, <2>10 DEF Turning, Held, Branches
    <2>12. LET turned == patchJump(Append(code1, back), jump, Len(code1) + 1)
           IN  /\ turned \in Seq(Instruction)
               /\ Len(turned) = Len(code1) + 1
               /\ turned[Len(code1) + 1] = back
               /\ \E h2 : /\ Held(turned, callers, own2, starts, h2, b)
                          /\ Same(Len(code1), h1, h2)
                          /\ h2[Len(code1) + 1] = low
      <3>. HIDE DEF code1, jump
      <3>. QED  BY <2>11, HeldTurn
    <2>13. PICK h2 : Held(code2, callers, own2, starts, h2, b) /\ h2[Len(code2)] = low
      BY <2>12
    <2>14. code2 \in Seq(Instruction)
      BY <2>12
    <2>. HIDE DEF code2
    <2>15. h2[Len(code2)] + Lift(ldc) = low + 1 /\ low + 1 \in Nat
      BY <1>6, <2>4, <2>13
    <2>16. PICK h3 : Held(code3, callers, own2, starts, h3, b) /\ h3[Len(code3)] = low + 1
      BY <1>6, <2>13, <2>14, <2>15, HeldLevel
    <2>. QED  BY <2>6, <2>16 DEF Upright, own2, starts
  <1>10. mode' = "return" /\ stack' = callers
    BY <1>1 DEF Finish
  <1>. QED  BY <1>8, <1>9, <1>10, Rising

\* No right operand of a logical operator is compiled in a plain program.
LEMMA LogicalHeights ==
  ASSUME IInv, Heights, NEW site, Resume(site), site \in {"and first", "and second", "or first", "or second"},
         mode' \in {"compile", "return", "error"}
  PROVE  Heights'
  <1>1. ASSUME plain' PROVE FALSE
    <2>1. ~Logical(top)
      BY <1>1, ResumedHeld DEF Awaits
    <2>2. top.site = site
      BY DEF Resume
    <2>. QED  BY <2>1, <2>2 DEF Logical
  <1>. QED  BY <1>1, Rising

\* Nothing of the function is on the stack where a return begins.
LEMMA ReturnHeights ==
  ASSUME IInv, Heights, ReturnStatement
  PROVE  Heights'
  <1>1. Node("return_statement")
    BY DEF ReturnStatement
  <1>2. ASSUME plain'
        PROVE  /\ instructions \in Seq(Instruction) /\ stack \in Seq(Activation)
               /\ \E h, b : /\ Held(instructions, stack, Own(stack), Starts(stack), h, b)
                            /\ h[Len(instructions)] = 0 /\ b[Len(stack)] = 0
    BY <1>1, <1>2, ChosenHeld
  <1>3. CASE Call(At("return")) /\ UNCHANGED instructions
    <2>1. mode' = "compile" /\ stack' = Append(stack, At("return")) /\ Raises(0)
      BY <1>3, RaisesNothing DEF Call
    <2>2. Offset(At("return")) = 0
      BY AtType DEF Offset, Sites
    <2>3. ASSUME plain' PROVE Upright(instructions', stack', 0)
      <3>1. PICK h, b : /\ Held(instructions, stack, Own(stack), Starts(stack), h, b)
                        /\ h[Len(instructions)] = 0 /\ b[Len(stack)] = 0
        BY <1>2, <2>3
      <3>2. h[Len(instructions)] + 0 = b[Len(stack)] + Offset(At("return"))
        BY <2>2, <3>1
      <3>. QED  BY <1>2, <2>1, <2>3, <3>1, <3>2, CallsUpright
    <2>. QED  BY <2>1, <2>3, Rising
  <1>4. CASE instructions' = instructions \o <<Instr("Ldc"), Instr("Reset")>> /\ Return
    <2>. DEFINE ldc == Instr("Ldc")  first == Append(instructions, ldc)
    <2>1. mode' = "return" /\ stack' = stack
      BY <1>4 DEF Return
    <2>2. Level(ldc) /\ Lift(ldc) = 1 /\ Instr("Reset") \in Instruction
      BY LiftInstr, InstrType DEF Opcodes
    <2>3. ASSUME plain' PROVE Upright(instructions', stack', 1)
      <3>1. PICK h, b : /\ Held(instructions, stack, Own(stack), Starts(stack), h, b)
                        /\ h[Len(instructions)] = 0 /\ b[Len(stack)] = 0
        BY <1>2, <2>3
      <3>2. instructions \in Seq(Instruction) /\ ldc \in Instruction
        BY <1>2, <2>2, <2>3 DEF Level
      <3>3. first \in Seq(Instruction) /\ instructions' = Append(first, Instr("Reset"))
        BY <1>4, <2>2, <3>2, ConcatTwo
      <3>. HIDE DEF ldc
      <3>4. PICK h1 : /\ Held(first, stack, Own(stack), Starts(stack), h1, b)
                      /\ h1[Len(first)] = 1
        <4>1. h[Len(instructions)] + Lift(ldc) = 1
          BY <2>2, <3>1
        <4>. QED  BY <2>2, <3>1, <3>2, <4>1, HeldLevel
      <3>. HIDE DEF first
      <3>5. PICK h2 : /\ Held(instructions', stack, Own(stack), Starts(stack), h2, b)
                      /\ h2[Len(instructions')] = 1
        BY <3>3, <3>4, HeldReset
      <3>6. h2[Len(instructions')] = b[Len(stack)] + 1
        BY <3>1, <3>5
      <3>. QED  BY <2>1, <3>5, <3>6 DEF Upright
    <2>. QED  BY <2>1, <2>3, Rising
  <1>. QED  BY <1>3, <1>4 DEF ReturnStatement

LEMMA ReturnBodyHeights ==
  ASSUME IInv, Heights, ReturnBody
  PROVE  Heights'
  <1>1. /\ Resume("return") /\ mode' = "return" /\ stack' = callers
        /\ instructions' = Append(instructions, Instr("Reset"))
    BY DEF ReturnBody, addInstr, Finish
  <1>2. "return" \notin PatchSites
    BY DEF PatchSites
  <1>3. ASSUME plain' PROVE Upright(instructions', callers, 1)
    <2>1. /\ instructions \in Seq(Instruction) /\ top.site = "return"
          /\ \E h, b : /\ Held(instructions, callers, Own(callers), Starts(callers), h, b)
                       /\ h[Len(instructions)] = b[Len(callers)] + Offset(top) + 1
                       /\ b[Len(callers)] \in Nat
                       /\ Awaits(instructions, top, h, b[Len(callers)],
                                 b[Len(callers)] + Offset(top))
      BY <1>1, <1>2, <1>3, ResumedSimple
    <2>2. PICK h, b : /\ Held(instructions, callers, Own(callers), Starts(callers), h, b)
                      /\ h[Len(instructions)] = b[Len(callers)] + Offset(top) + 1
                      /\ Awaits(instructions, top, h, b[Len(callers)],
                                b[Len(callers)] + Offset(top))
      BY <2>1
    <2>3. b[Len(callers)] = 0
      BY <2>1, <2>2 DEF Awaits
    <2>4. Offset(top) = 0
      BY <2>1 DEF Offset
    <2>5. h[Len(instructions)] = 1
      BY <2>2, <2>3, <2>4
    <2>6. PICK h2 : /\ Held(instructions', callers, Own(callers), Starts(callers), h2, b)
                    /\ h2[Len(instructions')] = 1
      BY <1>1, <2>1, <2>2, <2>5, HeldReset
    <2>7. h2[Len(instructions')] = b[Len(callers)] + 1
      BY <2>3, <2>6
    <2>. QED  BY <2>6, <2>7 DEF Upright
  <1>. QED  BY <1>1, <1>3, Rising

LEMMA ControlHeights ==
  ASSUME IInv, Heights, Control
  PROVE  Heights'
  <1>. USE DEF Opcodes
  <1>1. ASSUME compileConditional PROVE Heights'
    <2>1. "cond pred" \in Lower
      BY DEF Lower
    <2>2. Node("cond") /\ Call(At("cond pred")) /\ Raises(0)
      BY <1>1, RaisesNothing DEF compileConditional
    <2>. QED  BY <2>1, <2>2, NodeCallsLower
  <1>2. ASSUME ReturnStatement PROVE Heights'
    BY <1>2, ReturnHeights
  <1>3. ASSUME ReturnBody PROVE Heights'
    BY <1>3, ReturnBodyHeights
  <1>4. ASSUME Logic PROVE Heights'
    <2>1. Node("logic") /\ mode' = "compile"
      BY <1>4 DEF Logic, Call
    <2>2. ~plain'
      BY <2>1, ChosenHeld
    <2>. QED  BY <2>1, <2>2, Rising
  <1>5. ASSUME AndFirst \/ OrFirst PROVE Heights'
    <2>1. \E site \in {"and first", "or first"} : Resume(site)
      BY <1>5 DEF AndFirst, OrFirst
    <2>2. mode' = "compile"
      BY <1>5 DEF AndFirst, OrFirst, Continue
    <2>. QED  BY <2>1, <2>2, LogicalHeights
  <1>6. ASSUME LogicSecond PROVE Heights'
    <2>1. \E site \in {"and second", "or second"} : Resume(site)
      BY <1>6 DEF LogicSecond
    <2>2. mode' = "return"
      BY <1>6 DEF LogicSecond, Finish
    <2>. QED  BY <2>1, <2>2, LogicalHeights
  <1>7. ASSUME ContinueOrBreak PROVE Heights'
    BY <1>7, FailsFlat DEF ContinueOrBreak
  <1>. QED  BY <1>1, <1>2, <1>3, <1>4, <1>5, <1>6, <1>7, CondPredHeights, CondConsHeights,
               CondAltHeights, FnDeclHeights, FnBodyHeights, WhileLoopHeights,
               WhilePredHeights, WhileBodyHeights DEF Control

-----------------------------------------------------------------------------
(* The whole program *)

\* compileProgram adds the end of the program to code with no activation left.
LEMMA ProgramHeights ==
  ASSUME IInv, Heights, compileProgram
  PROVE  Heights'
  <1>. DEFINE n == Len(instructions)  done == Instr("Done")
  <1>1. /\ mode = "return" /\ stack = <<>> /\ mode' = "done" /\ plain' = plain
        /\ instructions' = Append(instructions, done)
    BY DEF compileProgram, addInstr
  <1>2. n \in Nat /\ instructions \in Seq(Instruction)
    BY DEF IInv, TypeOK
  <1>3. Level(done) /\ Lift(done) = 0 /\ done \in Instruction
    <2>1. done \in Instruction /\ done.op = "Done" /\ done.arg = 0
      BY InstrType DEF Opcodes, Instr
    <2>. HIDE DEF done
    <2>. QED  BY <2>1 DEF Level, Lift, Effect
  <1>. HIDE DEF done
  <1>4. ASSUME plain
        PROVE  \E h : /\ Flow(instructions', {}, {}, h)
                      /\ Len(instructions') > 0
                      /\ h[Len(instructions') - 1] = 1
    <2>1. PICK h, b : /\ Held(instructions, stack, Own(stack), Starts(stack), h, b)
                      /\ h[n] = b[Len(stack)] + 1
      BY <1>1, <1>4 DEF Heights, Upright
    <2>2. Own(stack) = {} /\ Starts(stack) = {} /\ Len(stack) = 0
      BY <1>1 DEF Own, Starts
    <2>3. b[Len(stack)] = 0
      BY <2>1, <2>2 DEF Held, Waits
    <2>4. h[n] = 1
      BY <2>1, <2>3
    <2>5. Held(instructions, stack, {}, {}, h, b) /\ h[n] + Lift(done) = 1
      BY <1>3, <2>1, <2>2, <2>4
    <2>6. PICK h2 : /\ Held(Append(instructions, done), stack, {}, {}, h2, b)
                    /\ Same(n, h, h2)
      BY <1>2, <1>3, <2>5, HeldLevel
    <2>7. n \in 0 .. n
      BY <1>2
    <2>8. h2[n] = 1
      BY <2>4, <2>6, <2>7 DEF Same
    <2>9. Len(instructions') = n + 1
      BY <1>1, <1>2, <1>3, AppendFacts
    <2>10. Len(instructions') - 1 = n /\ Len(instructions') > 0
      BY <1>2, <2>9
    <2>. QED  BY <1>1, <2>6, <2>8, <2>10 DEF Held
  <1>. QED  BY <1>1, <1>4 DEF Heights

LEMMA HeightsInit ==
  ASSUME Init
  PROVE  Heights
  <1>. DEFINE z == [a \in 0 .. 0 |-> 0]
  <1>1. instructions = <<>> /\ stack = <<>> /\ mode = "compile"
    BY DEF Init
  <1>2. /\ Own(<<>>) = {} /\ Starts(<<>>) = {} /\ Addr(<<>>) = {}
        /\ Len(<<>>) = 0 /\ DOMAIN <<>> = {}
    BY DEF Own, Starts, Addr
  <1>3. z \in [0 .. 0 -> Nat] /\ z[0] = 0
    OBVIOUS
  <1>. HIDE DEF z
  <1>4. Flow(<<>>, {}, {}, z)
    BY <1>2, <1>3 DEF Flow
  <1>5. Waits(<<>>, <<>>, z, z)
    BY <1>2, <1>3 DEF Waits
  <1>6. z[Len(<<>>)] = z[Len(<<>>)] + 0
    BY <1>2, <1>3
  <1>7. Upright(<<>>, <<>>, 0)
    BY <1>2, <1>4, <1>5, <1>6 DEF Upright, Held
  <1>. QED  BY <1>1, <1>7 DEF Heights

LEMMA HeightsStep ==
  ASSUME IInv, Heights, [Next]_vars
  PROVE  Heights'
  <1>1. ASSUME UNCHANGED vars PROVE Heights'
    BY <1>1 DEF vars, Heights, Upright, Held
  <1>2. ASSUME Terminating PROVE Heights'
    BY <1>1, <1>2 DEF Terminating
  <1>. QED  BY <1>1, <1>2, ValuesHeights, StatementsHeights, ControlHeights, ProgramHeights
            DEF Next

-----------------------------------------------------------------------------
(* The heights that Height computes *)

Enters(a) == a = 0 \/ \E f \in Addresses : Code(f) = [op |-> "Ldf", arg |-> a]

Before(a) ==
  IF Arriving(a) # {} THEN CHOOSE j \in Arriving(a) : TRUE ELSE a - 1

\* What the recursive definition of Height says of its value.
Computes(f) ==
  f = [a \in 0 .. Len(instructions) |->
         IF Enters(a) THEN 0 ELSE f[Before(a)] + Lift(Code(Before(a)))]

LEMMA HeightChosen == Height(-1) = CHOOSE f : Computes(f)
  BY DEF Height, Computes, Enters, Before, Lift

LEMMA BeforeLess ==
  ASSUME instructions \in Seq(Instruction), NEW a \in 0 .. Len(instructions), ~Enters(a)
  PROVE  Before(a) \in Addresses /\ Before(a) < a
  <1>1. a \in Nat /\ a # 0
    BY DEF Enters
  <1>2. CASE Arriving(a) # {}
    <2>1. Before(a) \in Arriving(a)
      BY <1>2 DEF Before
    <2>. QED  BY <2>1 DEF Arriving, Jumping
  <1>3. CASE Arriving(a) = {}
    <2>1. Before(a) = a - 1
      BY <1>3 DEF Before
    <2>. QED  BY <1>1, <2>1 DEF Addresses
  <1>. QED  BY <1>2, <1>3

\* The heights that the invariant assigns are computed so.
LEMMA FlowComputes ==
  ASSUME instructions \in Seq(Instruction), NEW h, Flow(instructions, {}, {}, h)
  PROVE  Computes(h)
  <1>. DEFINE n == Len(instructions)
  <1>1. /\ h \in [0 .. n -> Nat] /\ h[0] = 0
        /\ \A a \in Addresses : Falls(instructions, {}, {}, h, a) /\ Carries(instructions, h, a)
    BY DEF Flow, Addresses, Addr
  <1>2. ASSUME NEW a \in 0 .. n, Enters(a) PROVE h[a] = 0
    <2>1. ASSUME NEW f \in Addresses, Code(f) = [op |-> "Ldf", arg |-> a] PROVE h[a] = 0
      <3>1. instructions[f + 1].op = "Ldf" /\ instructions[f + 1].arg = a
        BY <2>1 DEF Code
      <3>. QED  BY <1>1, <3>1 DEF Falls
    <2>. QED  BY <1>1, <1>2, <2>1 DEF Enters
  <1>3. ASSUME NEW a \in 0 .. n, ~Enters(a) PROVE h[a] = h[Before(a)] + Lift(Code(Before(a)))
    <2>. DEFINE p == Before(a)
    <2>1. p \in Addresses /\ p < a /\ a \in Nat
      BY <1>3, BeforeLess
    <2>2. CASE Arriving(a) # {}
      <3>1. p \in Arriving(a)
        BY <2>2 DEF Before
      <3>2. instructions[p + 1].op \in Jumps /\ instructions[p + 1].arg = a
        BY <3>1 DEF Arriving, Jumping, Code
      <3>. HIDE DEF p
      <3>3. h[a] = h[p] + Lift(instructions[p + 1])
        BY <1>1, <2>1, <3>2 DEF Carries
      <3>. QED  BY <3>3 DEF Code, p
    <2>3. CASE Arriving(a) = {}
      <3>1. p = a - 1
        BY <2>3 DEF Before
      <3>. HIDE DEF p
      <3>2. p + 1 = a /\ p \in 0 .. n
        BY <2>1, <3>1 DEF Addresses
      <3>. DEFINE i == instructions[p + 1]
      <3>3. Falls(instructions, {}, {}, h, p)
        BY <1>1, <2>1
      <3>4. CASE i.op \notin Branches
        <4>1. h[p + 1] = h[p] + Lift(i)
          BY <3>3, <3>4 DEF Falls
        <4>. QED  BY <3>2, <4>1 DEF Code, p
      <3>5. CASE i.op = "Reset" /\ h[p + 1] = h[p]
        <4>1. Lift(i) = 0
          BY <3>5 DEF Lift, Effect
        <4>2. h[p] \in Nat
          BY <1>1, <3>2
        <4>. HIDE DEF i
        <4>3. h[p + 1] = h[p] + Lift(i)
          BY <3>5, <4>1, <4>2
        <4>. QED  BY <3>2, <4>3 DEF Code, p, i
      <3>6. ~Reached(instructions, {}, {}, a)
        <4>1. ASSUME NEW f \in Addr(instructions), instructions[f + 1].op = "Ldf",
                     instructions[f + 1].arg = a
              PROVE  FALSE
          <5>1. f + 1 \in 1 .. Len(instructions)
            BY DEF Addr
          <5>2. instructions[f + 1] \in Instruction
            BY <5>1
          <5>3. instructions[f + 1] = [op |-> "Ldf", arg |-> a]
            BY <4>1, <5>2 DEF Instruction
          <5>. QED  BY <1>3, <5>3 DEF Enters, Code, Addresses, Addr
        <4>2. ASSUME NEW j \in Addr(instructions), instructions[j + 1].op \in Jumps, j < a,
                     instructions[j + 1].arg = a
              PROVE  FALSE
          BY <2>3, <4>2 DEF Arriving, Jumping, Code, Addresses, Addr
        <4>. QED  BY <4>1, <4>2 DEF Reached
      <3>. QED  BY <3>2, <3>3, <3>4, <3>5, <3>6 DEF Falls
    <2>. QED  BY <2>2, <2>3
  <1>4. h = [a \in 0 .. n |-> IF Enters(a) THEN 0 ELSE h[Before(a)] + Lift(Code(Before(a)))]
    BY <1>1, <1>2, <1>3
  <1>. QED  BY <1>4 DEF Computes

\* Two functions so computed agree everywhere: there is no least address where
\* they differ.
LEMMA ComputesOnce ==
  ASSUME instructions \in Seq(Instruction), NEW f, NEW g, Computes(f), Computes(g)
  PROVE  f = g
  <1>. DEFINE n == Len(instructions)  D == {a \in 0 .. n : f[a] # g[a]}
  <1>1. /\ \A a \in 0 .. n :
             f[a] = IF Enters(a) THEN 0 ELSE f[Before(a)] + Lift(Code(Before(a)))
        /\ \A a \in 0 .. n :
             g[a] = IF Enters(a) THEN 0 ELSE g[Before(a)] + Lift(Code(Before(a)))
    BY DEF Computes
  <1>2. ASSUME D # {} PROVE FALSE
    <2>1. D \subseteq Nat
      OBVIOUS
    <2>2. PICK a \in D : \A y \in D : a <= y
      BY <1>2, <2>1, LeastNatural
    <2>3. a \in 0 .. n /\ f[a] # g[a]
      BY <2>2
    <2>4. ~Enters(a)
      BY <1>1, <2>3
    <2>5. Before(a) \in Addresses /\ Before(a) < a
      BY <2>3, <2>4, BeforeLess
    <2>. DEFINE p == Before(a)
    <2>6. p \in 0 .. n /\ p < a
      BY <2>5 DEF Addresses
    <2>7. f[p] = g[p]
      <3>. HIDE DEF p
      <3>1. ASSUME p \in D PROVE FALSE
        <4>1. a <= p
          BY <2>2, <3>1
        <4>. QED  BY <2>3, <2>6, <4>1
      <3>. QED  BY <2>6, <3>1
    <2>8. f[a] = f[p] + Lift(Code(p)) /\ g[a] = g[p] + Lift(Code(p))
      BY <1>1, <2>3, <2>4
    <2>. QED  BY <2>3, <2>7, <2>8
  <1>3. \A a \in 0 .. n : f[a] = g[a]
    BY <1>2
  <1>4. /\ f = [a \in 0 .. n |-> f[a]]
        /\ g = [a \in 0 .. n |-> g[a]]
    BY DEF Computes
  <1>. QED  BY <1>3, <1>4

LEMMA HeightIs ==
  ASSUME instructions \in Seq(Instruction), NEW h, Flow(instructions, {}, {}, h)
  PROVE  Height(-1) = h
  <1>1. Computes(h)
    BY FlowComputes
  <1>2. Computes(CHOOSE f : Computes(f))
    BY <1>1
  <1>3. (CHOOSE f : Computes(f)) = h
    BY <1>1, <1>2, ComputesOnce
  <1>. QED  BY <1>3, HeightChosen

LEMMA FlowBalanced ==
  ASSUME instructions \in Seq(Instruction), NEW h, Flow(instructions, {}, {}, h),
         h[Len(instructions) - 1] = 1
  PROVE  Balanced(-1)
  <1>. DEFINE n == Len(instructions)
  <1>0. Height(-1) = h
    BY HeightIs
  <1>1. /\ h \in [0 .. n -> Nat]
        /\ \A a \in Addresses : Falls(instructions, {}, {}, h, a) /\ Carries(instructions, h, a)
    BY DEF Flow, Addresses, Addr
  <1>2. \A a \in DOMAIN h : h[a] >= 0
    BY <1>1
  <1>3. \A a \in Jumping : h[Code(a).arg] = h[a] + Effect(Code(a), -1)
    BY <1>1, Zenon DEF Jumping, Carries, Code, Lift
  <1>4. \A a \in Addresses : Code(a).op \notin {"Goto", "Reset"} =>
          h[a + 1] = h[a] + Effect(Code(a), -1)
    BY <1>1, Zenon DEF Falls, Code, Lift, Branches
  <1>5. \A a \in Addresses : Code(a).op = "Reset" => h[a] = 1
    BY <1>1, Zenon DEF Falls, Code
  <1>. QED  BY <1>0, <1>2, <1>3, <1>4, <1>5 DEF Balanced

\* The heights, and with them the jumps, are right throughout.
THEOREM HeightsAlwaysHold == Spec => [](IInv /\ Heights)
  <1>1. Init => IInv /\ Heights
    BY InvariantInit, HeightsInit
  <1>2. (IInv /\ Heights) /\ [Next]_vars => (IInv /\ Heights)'
    BY InvariantStep, HeightsStep
  <1>. QED  BY <1>1, <1>2, PTL DEF Spec

\* Every node compile is called on leaves one value on the operand stack, on
\* every path through conditionals, loops and functions, and every Reset, of a
\* function's end or of a return, finds one value to return: for trees of every
\* size and depth without logical operators, casts and returns that leave an
\* operand of their function behind.
THEOREM NodesAlwaysLeaveOneValue == Spec => []NodesLeaveOneValue
  <1>1. IInv /\ Heights => NodesLeaveOneValue
    <2>. SUFFICES ASSUME IInv, Heights, mode = "done", plain PROVE Balanced(-1)
      BY DEF NodesLeaveOneValue
    <2>1. instructions \in Seq(Instruction)
      BY DEF IInv, TypeOK
    <2>2. \E h : /\ Flow(instructions, {}, {}, h)
                 /\ h[Len(instructions) - 1] = 1
      BY DEF Heights
    <2>. QED  BY <2>1, <2>2, FlowBalanced
  <1>. QED  BY <1>1, HeightsAlwaysHold, PTL
=============================================================================
