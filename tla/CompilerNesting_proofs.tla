---------------------- MODULE CompilerNesting_proofs ----------------------
(***************************************************************************)
(* Functions and scopes nest in the code as they do in the program: no     *)
(* jump crosses the ends of a function's code, and none enters or leaves a *)
(* scope.  The argument follows the code while it grows: whatever is still *)
(* to be patched, or to be jumped back to, belongs to a waiting activation *)
(* and lies in the same functions and scopes as the end of the code will   *)
(* when that activation goes on.                                           *)
(***************************************************************************)
EXTENDS Compiler_proofs, FiniteSetTheorems

USE DEF Jumps

-----------------------------------------------------------------------------
(* What nests *)

Looping(a) == a.site \in {"while pred", "while body"}

Scoped(a) == a.site = "blk" /\ a.has_locals

\* The addresses an activation has yet to connect with what follows: a jump
\* to patch, a loop's start to jump back to.
Positions(a) == {p \in {a.jump} : Owns(a)} \cup {p \in {a.start} : Looping(a)}

\* The jumps that nobody is going to patch.
Final(code, stk) == {j \in Addr(code) \ Own(stk) : code[j + 1].op \in Jumps}

Inside(code, a) == code[a + 1].arg .. (a - 1)

\* The function whose Ldf is at a is complete.
Closed(code, stk, a) ==
  /\ a > 0 /\ code[a].op = "Reset"
  /\ \A j \in Final(code, stk) :
       j \in Inside(code, a) <=> code[j + 1].arg \in Inside(code, a)
  /\ \A k \in DOMAIN stk : \A p \in Positions(stk[k]) : p \notin Inside(code, a)

\* The function of the k-th activation is being compiled: its code reaches
\* from its start to the end.
Open(code, stk, k) ==
  /\ stk[k].start <= Len(code)
  /\ \A j \in Final(code, stk) : j >= stk[k].start <=> code[j + 1].arg >= stk[k].start
  /\ \A l \in DOMAIN stk : \A p \in Positions(stk[l]) : l > k <=> p >= stk[k].start

Nest(code, stk) ==
  /\ \A a \in Addr(code) : code[a + 1].op = "Ldf" => Closed(code, stk, a)
  /\ \A k \in DOMAIN stk : stk[k].site = "fun" => Open(code, stk, k)
  /\ \A j \in Final(code, stk) : code[j + 1].arg \in 0 .. Len(code)
  /\ \A k \in DOMAIN stk : Positions(stk[k]) \subseteq 0 .. Len(code)

\* The scopes that are open before address a, and those of the activations
\* before the k-th.
Depth(code, a) ==
  Cardinality({b \in 0 .. (a - 1) : code[b + 1].op = "EnterScope"})
    - Cardinality({b \in 0 .. (a - 1) : code[b + 1].op = "ExitScope"})

Scopes(stk, k) == Cardinality({l \in 1 .. (k - 1) : Scoped(stk[l])})

Levels(code, stk) ==
  /\ \A a \in 0 .. Len(code) : Depth(code, a) >= 0
  /\ \A j \in Final(code, stk) : Depth(code, code[j + 1].arg) = Depth(code, j)
  /\ \A a \in Addr(code) : code[a + 1].op = "Ldf" =>
       code[a + 1].arg <= a /\ Depth(code, code[a + 1].arg) = Depth(code, a)
  /\ \A k \in DOMAIN stk :
       /\ \A p \in Positions(stk[k]) : Depth(code, p) = Scopes(stk, k)
       /\ stk[k].site = "fun" => Depth(code, stk[k].start) = Scopes(stk, k)
  /\ Depth(code, Len(code)) = Scopes(stk, Len(stk) + 1)

-----------------------------------------------------------------------------
(* Steps that neither open nor close a function *)

\* The positions of the activations after the m-th, and the addresses at the
\* end of the code: they lie in the same functions and scopes.
Dropped(stk, m) == UNION {Positions(stk[k]) : k \in (m + 1) .. Len(stk)}

Now(code, code2, stk, m) == Len(code) .. Len(code2) \cup Dropped(stk, m)

\* The code grows, jumps are patched to now, and a jump that is added goes to
\* now or has an owner.
Grows(code, code2, patched, own2, now) ==
  /\ code \in Seq(Instruction) /\ code2 \in Seq(Instruction)
  /\ Len(code) <= Len(code2)
  /\ patched \subseteq Addr(code)
  /\ \A b \in Addr(code) \ patched : code2[b + 1] = code[b + 1]
  /\ \A b \in patched : /\ code2[b + 1].op = code[b + 1].op
                        /\ code[b + 1].op \in Jumps
                        /\ code2[b + 1].arg \in now
  /\ \A b \in Len(code) .. (Len(code2) - 1) :
       /\ code2[b + 1].op # "Ldf"
       /\ code2[b + 1].op \in Jumps => b \in own2 \/ code2[b + 1].arg \in now

\* The first m activations stay, and the jumps of the others are patched.
Shifts(stk, stk2, m, patched, now) ==
  /\ stk \in Seq(Activation) /\ stk2 \in Seq(Activation)
  /\ m \in 0 .. Len(stk) /\ m <= Len(stk2)
  /\ \A k \in 1 .. m : stk2[k] = stk[k]
  /\ \A k \in (m + 1) .. Len(stk) :
       /\ stk[k].site # "fun"
       /\ Owns(stk[k]) => stk[k].jump \in patched
  /\ \A k \in (m + 1) .. Len(stk2) :
       stk2[k].site # "fun" /\ Positions(stk2[k]) \subseteq now
  /\ patched \subseteq Dropped(stk, m)

\* Jumps that are final afterwards were so before, or lie with what is now.
LEMMA FinalNow ==
  ASSUME NEW code, NEW code2, NEW stk, NEW stk2, NEW m, NEW patched, NEW now,
         Grows(code, code2, patched, Own(stk2), now),
         Shifts(stk, stk2, m, patched, now), now = Now(code, code2, stk, m),
         NEW j \in Final(code2, stk2)
  PROVE  \/ j \in Final(code, stk) /\ code2[j + 1] = code[j + 1]
         \/ j \in now /\ code2[j + 1].arg \in now
  <1> DEFINE n == Len(code)  n2 == Len(code2)
  <1>1. /\ n \in Nat /\ n2 \in Nat /\ n <= n2
        /\ Addr(code) = 0 .. (n - 1) /\ Addr(code2) = 0 .. (n2 - 1)
    BY DEF Grows, Addr
  <1>2. j \in Addr(code2) \ Own(stk2) /\ code2[j + 1].op \in Jumps
    BY DEF Final
  <1>3. CASE j \in patched
    BY <1>3 DEF Grows, Shifts, Now
  <1>4. CASE j \in Addr(code) \ patched
    <2>1. code2[j + 1] = code[j + 1]
      BY <1>4 DEF Grows
    <2>2. j \notin Own(stk)
      <3>1. SUFFICES ASSUME j \in Own(stk) PROVE FALSE
        OBVIOUS
      <3>2. PICK k \in DOMAIN stk : Owns(stk[k]) /\ stk[k].jump = j
        BY <3>1 DEF Own
      <3>3. k \in 1 .. m \/ k \in (m + 1) .. Len(stk)
        BY DEF Shifts
      <3>4. CASE k \in 1 .. m
        <4>1. stk2[k] = stk[k] /\ k \in DOMAIN stk2
          BY <3>4 DEF Shifts
        <4>2. j \in Own(stk2)
          BY <3>2, <4>1 DEF Own
        <4> QED BY <1>2, <4>2
      <3>5. CASE k \in (m + 1) .. Len(stk)
        BY <1>4, <3>2, <3>5 DEF Shifts
      <3> QED BY <3>3, <3>4, <3>5
    <2> QED BY <1>2, <1>4, <2>1, <2>2 DEF Final
  <1>5. CASE j \notin Addr(code)
    <2>1. j \in n .. (n2 - 1)
      <3> HIDE DEF n, n2
      <3> QED BY <1>1, <1>2, <1>5
    <2>2. code2[j + 1].arg \in now
      BY <1>2, <2>1 DEF Grows
    <2>3. j \in n .. n2
      <3> HIDE DEF n, n2
      <3> QED BY <1>1, <2>1
    <2> QED BY <2>2, <2>3 DEF Now
  <1> QED BY <1>3, <1>4, <1>5

\* What is now is outside every complete function, and inside every open one
\* that goes on.
LEMMA NowOutside ==
  ASSUME NEW code \in Seq(Instruction), NEW code2 \in Seq(Instruction),
         Len(code) <= Len(code2), NEW stk, NEW m, Nest(code, stk),
         NEW a \in Addr(code), code[a + 1].op = "Ldf",
         m \in 0 .. Len(stk), stk \in Seq(Activation),
         NEW p \in Now(code, code2, stk, m)
  PROVE  p \notin Inside(code, a)
  <1> DEFINE n == Len(code)  n2 == Len(code2)  s == code[a + 1].arg
  <1>1. n \in Nat /\ n2 \in Nat /\ a \in 0 .. (n - 1)
    BY DEF Addr
  <1>2. CASE p \in n .. n2
    <2>1. code[a + 1] \in Instruction
      BY <1>1
    <2>2. s \in Nat
      BY <2>1 DEF Instruction
    <2> HIDE DEF n, n2, s
    <2>3. p \notin s .. (a - 1)
      BY <1>1, <1>2, <2>2
    <2> QED BY <2>3 DEF s, Inside
  <1>3. CASE p \in Dropped(stk, m)
    <2>1. PICK k \in (m + 1) .. Len(stk) : p \in Positions(stk[k])
      BY <1>3 DEF Dropped
    <2>2. k \in DOMAIN stk
      OBVIOUS
    <2> QED BY <2>1, <2>2 DEF Nest, Closed
  <1> QED BY <1>2, <1>3 DEF Now

LEMMA NowInside ==
  ASSUME NEW code \in Seq(Instruction), NEW code2 \in Seq(Instruction),
         Len(code) <= Len(code2), NEW stk, NEW m, Nest(code, stk),
         m \in 0 .. Len(stk), stk \in Seq(Activation),
         NEW k \in 1 .. m, stk[k].site = "fun",
         NEW p \in Now(code, code2, stk, m)
  PROVE  p >= stk[k].start
  <1> DEFINE n == Len(code)  n2 == Len(code2)  s == stk[k].start
  <1>1. n \in Nat /\ n2 \in Nat
    OBVIOUS
  <1>2. k \in DOMAIN stk /\ stk[k] \in Activation /\ Open(code, stk, k)
    BY DEF Nest
  <1>3. s \in Nat /\ s <= n
    BY <1>2 DEF Activation, Open
  <1>4. CASE p \in n .. n2
    <2> HIDE DEF n, n2, s
    <2>1. p >= s
      BY <1>1, <1>3, <1>4
    <2> QED BY <2>1 DEF s
  <1>5. CASE p \in Dropped(stk, m)
    <2>1. PICK l \in (m + 1) .. Len(stk) : p \in Positions(stk[l])
      BY <1>5 DEF Dropped
    <2>2. l \in DOMAIN stk /\ l > k
      OBVIOUS
    <2> QED BY <1>2, <2>1, <2>2 DEF Open
  <1> QED BY <1>4, <1>5 DEF Now

LEMMA NowBound ==
  ASSUME NEW code \in Seq(Instruction), NEW code2 \in Seq(Instruction),
         Len(code) <= Len(code2), NEW stk \in Seq(Activation), NEW m, Nest(code, stk),
         m \in 0 .. Len(stk), NEW p \in Now(code, code2, stk, m)
  PROVE  p \in 0 .. Len(code2)
  <1> DEFINE n == Len(code)  n2 == Len(code2)
  <1>1. n \in Nat /\ n2 \in Nat /\ n <= n2
    OBVIOUS
  <1>2. p \in n .. n2 \/ p \in 0 .. n
    <2>1. CASE p \in Dropped(stk, m)
      <3>1. PICK k \in (m + 1) .. Len(stk) : p \in Positions(stk[k])
        BY <2>1 DEF Dropped
      <3>2. k \in DOMAIN stk
        OBVIOUS
      <3> QED BY <3>1, <3>2 DEF Nest
    <2> QED BY <2>1 DEF Now
  <1> HIDE DEF n, n2
  <1>3. p \in 0 .. n2
    BY <1>1, <1>2
  <1> QED BY <1>3 DEF n2

LEMMA NestKept ==
  ASSUME NEW code, NEW code2, NEW stk, NEW stk2, NEW m, NEW patched, NEW now,
         Nest(code, stk), Grows(code, code2, patched, Own(stk2), now),
         Shifts(stk, stk2, m, patched, now), now = Now(code, code2, stk, m)
  PROVE  Nest(code2, stk2)
  <1>0. /\ code \in Seq(Instruction) /\ code2 \in Seq(Instruction)
        /\ Len(code) <= Len(code2)
        /\ stk \in Seq(Activation) /\ stk2 \in Seq(Activation)
        /\ m \in 0 .. Len(stk)
    BY DEF Grows, Shifts
  <1>1. ASSUME NEW p \in now
        PROVE  /\ p \in 0 .. Len(code2)
               /\ \A a \in Addr(code) : code[a + 1].op = "Ldf" => p \notin Inside(code, a)
               /\ \A k \in 1 .. m : stk[k].site = "fun" => p >= stk[k].start
    BY <1>0, NowOutside, NowInside, NowBound
  <1>2. ASSUME NEW k \in DOMAIN stk2
        PROVE  \/ k \in 1 .. m /\ k \in DOMAIN stk /\ stk2[k] = stk[k]
               \/ k \in (m + 1) .. Len(stk2) /\ stk2[k].site # "fun"
                    /\ Positions(stk2[k]) \subseteq now
    BY <1>0 DEF Shifts
  <1>3. ASSUME NEW j \in Final(code2, stk2)
        PROVE  \/ j \in Final(code, stk) /\ code2[j + 1] = code[j + 1]
               \/ j \in now /\ code2[j + 1].arg \in now
    BY FinalNow
  <1>4. ASSUME NEW a \in Addr(code2), code2[a + 1].op = "Ldf"
        PROVE  Closed(code2, stk2, a)
    <2>1. a \in Addr(code) /\ code2[a + 1] = code[a + 1]
      <3>1. a \in Addr(code) \/ a \in Len(code) .. (Len(code2) - 1)
        BY <1>0 DEF Addr
      <3>2. a \notin patched
        <4>1. a \in patched => code2[a + 1].op \in Jumps
          BY DEF Grows
        <4> QED BY <1>4, <4>1
      <3> QED BY <1>4, <3>1, <3>2 DEF Grows
    <2>2. Closed(code, stk, a) /\ Inside(code2, a) = Inside(code, a)
      BY <1>4, <2>1 DEF Nest, Inside
    <2>3. code2[a].op = "Reset"
      <3>1. a - 1 \in Addr(code) /\ (a - 1) + 1 = a
        BY <1>0, <2>1, <2>2 DEF Addr, Closed
      <3>2. code2[(a - 1) + 1].op = code[(a - 1) + 1].op
        BY <3>1 DEF Grows
      <3> QED BY <2>2, <3>1, <3>2 DEF Closed
    <2>4. ASSUME NEW j \in Final(code2, stk2)
          PROVE  j \in Inside(code, a) <=> code2[j + 1].arg \in Inside(code, a)
      <3>1. CASE j \in Final(code, stk) /\ code2[j + 1] = code[j + 1]
        BY <2>2, <3>1 DEF Closed
      <3>2. CASE j \in now /\ code2[j + 1].arg \in now
        BY <1>1, <1>4, <2>1, <3>2
      <3> QED BY <1>3, <3>1, <3>2
    <2>5. ASSUME NEW k \in DOMAIN stk2, NEW p \in Positions(stk2[k])
          PROVE  p \notin Inside(code, a)
      <3>1. CASE k \in DOMAIN stk /\ stk2[k] = stk[k]
        BY <2>2, <2>5, <3>1 DEF Closed
      <3>2. CASE Positions(stk2[k]) \subseteq now
        BY <1>1, <1>4, <2>1, <2>5, <3>2
      <3> QED BY <1>2, <3>1, <3>2
    <2> QED BY <2>2, <2>3, <2>4, <2>5 DEF Closed
  <1>5. ASSUME NEW k \in DOMAIN stk2, stk2[k].site = "fun"
        PROVE  Open(code2, stk2, k)
    <2>1. k \in 1 .. m /\ k \in DOMAIN stk /\ stk2[k] = stk[k]
      BY <1>2, <1>5
    <2>2. Open(code, stk, k) /\ stk[k] \in Activation
      BY <1>0, <1>5, <2>1 DEF Nest
    <2>3. stk[k].start <= Len(code2)
      <3> DEFINE n == Len(code)  n2 == Len(code2)  s == stk[k].start
      <3>0. s \in Nat
        BY <2>2 DEF Activation
      <3>1. n \in Nat /\ n2 \in Nat /\ s \in Nat /\ s <= n /\ n <= n2
        BY <1>0, <2>2, <3>0 DEF Open
      <3> HIDE DEF n, n2, s
      <3>2. s <= n2
        BY <3>1
      <3> QED BY <3>2 DEF n2, s
    <2>4. ASSUME NEW j \in Final(code2, stk2)
          PROVE  j >= stk[k].start <=> code2[j + 1].arg >= stk[k].start
      <3>1. CASE j \in Final(code, stk) /\ code2[j + 1] = code[j + 1]
        BY <2>2, <3>1 DEF Open
      <3>2. CASE j \in now /\ code2[j + 1].arg \in now
        BY <1>1, <1>5, <2>1, <3>2
      <3> QED BY <1>3, <3>1, <3>2
    <2>5. ASSUME NEW l \in DOMAIN stk2, NEW p \in Positions(stk2[l])
          PROVE  l > k <=> p >= stk[k].start
      <3>1. CASE l \in DOMAIN stk /\ stk2[l] = stk[l]
        BY <2>2, <2>5, <3>1 DEF Open
      <3>2. CASE l \in (m + 1) .. Len(stk2) /\ Positions(stk2[l]) \subseteq now
        <4>1. l > k
          BY <1>0, <2>1, <3>2
        <4> QED BY <1>1, <1>5, <2>1, <2>5, <3>2, <4>1
      <3> QED BY <1>2, <3>1, <3>2
    <2> QED BY <2>1, <2>3, <2>4, <2>5 DEF Open
  <1>6. ASSUME NEW j \in Final(code2, stk2)
        PROVE  code2[j + 1].arg \in 0 .. Len(code2)
    <2>1. CASE j \in Final(code, stk) /\ code2[j + 1] = code[j + 1]
      <3> DEFINE n == Len(code)  n2 == Len(code2)  t == code2[j + 1].arg
      <3>1. n \in Nat /\ n2 \in Nat /\ n <= n2 /\ t \in 0 .. n
        BY <1>0, <2>1 DEF Nest
      <3> HIDE DEF n, n2, t
      <3>2. t \in 0 .. n2
        BY <3>1
      <3> QED BY <3>2 DEF n2, t
    <2>2. CASE j \in now /\ code2[j + 1].arg \in now
      BY <1>1, <2>2
    <2> QED BY <1>3, <2>1, <2>2
  <1>7. ASSUME NEW k \in DOMAIN stk2, NEW p \in Positions(stk2[k])
        PROVE  p \in 0 .. Len(code2)
    <2>1. CASE k \in DOMAIN stk /\ stk2[k] = stk[k]
      <3> DEFINE n == Len(code)  n2 == Len(code2)
      <3>1. n \in Nat /\ n2 \in Nat /\ n <= n2 /\ p \in 0 .. n
        BY <1>0, <1>7, <2>1 DEF Nest
      <3> HIDE DEF n, n2
      <3>2. p \in 0 .. n2
        BY <3>1
      <3> QED BY <3>2 DEF n2
    <2>2. CASE Positions(stk2[k]) \subseteq now
      BY <1>1, <1>7, <2>2
    <2> QED BY <1>2, <2>1, <2>2
  <1> QED BY <1>4, <1>5, <1>6, <1>7 DEF Nest

-----------------------------------------------------------------------------
(* Scopes *)

\* The addresses before a whose instruction is op.
Before(code, a, op) == {b \in 0 .. (a - 1) : code[b + 1].op = op}

LEMMA BeforeFinite ==
  ASSUME NEW code, NEW a \in Nat, NEW op
  PROVE  /\ IsFiniteSet(Before(code, a, op))
         /\ Cardinality(Before(code, a, op)) \in Nat
  <1>1. IsFiniteSet(0 .. (a - 1))
    BY FS_Interval
  <1>2. Before(code, a, op) \subseteq 0 .. (a - 1)
    BY DEF Before
  <1> QED BY <1>1, <1>2, FS_Subset, FS_CardinalityType

LEMMA DepthBefore ==
  ASSUME NEW code, NEW a
  PROVE  Depth(code, a) = Cardinality(Before(code, a, "EnterScope"))
                            - Cardinality(Before(code, a, "ExitScope"))
  BY DEF Depth, Before

\* None of the instructions added enters or leaves a scope.
Silent(code, code2) ==
  \A b \in Len(code) .. (Len(code2) - 1) :
    code2[b + 1].op \notin {"EnterScope", "ExitScope"}

\* The depth depends on the code before the address only.
LEMMA DepthKept ==
  ASSUME NEW code \in Seq(Instruction), NEW code2 \in Seq(Instruction),
         Extends(code, code2), NEW a \in 0 .. Len(code)
  PROVE  Depth(code2, a) = Depth(code, a)
  <1>1. \A b \in 0 .. (a - 1) : code2[b + 1].op = code[b + 1].op
    <2> DEFINE n == Len(code)
    <2>1. n \in Nat /\ a \in 0 .. n /\ Addr(code) = 0 .. (n - 1)
      BY DEF Addr
    <2> HIDE DEF n
    <2>2. 0 .. (a - 1) \subseteq Addr(code)
      BY <2>1
    <2> QED BY <2>2 DEF Extends
  <1>2. \A op : Before(code2, a, op) = Before(code, a, op)
    BY <1>1 DEF Before
  <1> QED BY <1>2, DepthBefore

LEMMA DepthSilent ==
  ASSUME NEW code \in Seq(Instruction), NEW code2 \in Seq(Instruction),
         Extends(code, code2), Silent(code, code2),
         NEW a \in Len(code) .. Len(code2)
  PROVE  Depth(code2, a) = Depth(code, Len(code))
  <1> DEFINE n == Len(code)  n2 == Len(code2)
  <1>1. n \in Nat /\ n2 \in Nat /\ a \in n .. n2 /\ Addr(code) = 0 .. (n - 1)
    BY DEF Addr
  <1>2. \A b \in 0 .. (n - 1) : code2[b + 1].op = code[b + 1].op
    BY <1>1 DEF Extends
  <1>3. \A b \in n .. (n2 - 1) : code2[b + 1].op \notin {"EnterScope", "ExitScope"}
    BY DEF Silent
  <1> HIDE DEF n, n2
  <1>4. ASSUME NEW op \in {"EnterScope", "ExitScope"}
        PROVE  Before(code2, a, op) = Before(code, n, op)
    <2>1. ASSUME NEW b \in 0 .. (a - 1), code2[b + 1].op = op
          PROVE  b \in 0 .. (n - 1)
      <3>1. b \in 0 .. (n - 1) \/ b \in n .. (n2 - 1)
        BY <1>1
      <3> QED BY <1>3, <2>1, <3>1
    <2>2. 0 .. (n - 1) \subseteq 0 .. (a - 1)
      BY <1>1
    <2> QED BY <1>2, <2>1, <2>2 DEF Before
  <1>5. Depth(code2, a) = Depth(code, n)
    BY <1>4, DepthBefore
  <1> QED BY <1>5 DEF n

LEMMA GrowsExtends ==
  ASSUME NEW code, NEW code2, NEW patched, NEW own2, NEW now,
         Grows(code, code2, patched, own2, now)
  PROVE  Extends(code, code2)
  BY DEF Grows, Extends

\* No scope is entered or left by the activations that come and go.
Unscoped(stk, stk2, m) ==
  /\ \A k \in (m + 1) .. Len(stk) : ~Scoped(stk[k])
  /\ \A k \in (m + 1) .. Len(stk2) : ~Scoped(stk2[k])

LEMMA ScopesKept ==
  ASSUME NEW stk \in Seq(Activation), NEW stk2 \in Seq(Activation),
         NEW m \in 0 .. Len(stk), m <= Len(stk2),
         \A k \in 1 .. m : stk2[k] = stk[k]
  PROVE  /\ \A k \in 1 .. (m + 1) : Scopes(stk2, k) = Scopes(stk, k)
         /\ Unscoped(stk, stk2, m) =>
              /\ \A k \in (m + 1) .. (Len(stk) + 1) : Scopes(stk, k) = Scopes(stk, m + 1)
              /\ \A k \in (m + 1) .. (Len(stk2) + 1) : Scopes(stk2, k) = Scopes(stk, m + 1)
  <1> DEFINE n == Len(stk)  n2 == Len(stk2)
             open(s, k) == {l \in 1 .. (k - 1) : Scoped(s[l])}
  <1>1. n \in Nat /\ n2 \in Nat /\ m \in 0 .. n /\ m <= n2
    OBVIOUS
  <1>2. \A s, k : Scopes(s, k) = Cardinality(open(s, k))
    BY DEF Scopes
  <1>3. \A k \in 1 .. (m + 1) : open(stk2, k) = open(stk, k)
    <2> HIDE DEF n, n2
    <2>1. \A k \in 1 .. (m + 1) : \A l \in 1 .. (k - 1) : stk2[l] = stk[l]
      BY <1>1
    <2> QED BY <2>1
  <1>4. ASSUME NEW s, NEW last \in Nat, m <= last,
               \A k \in (m + 1) .. last : ~Scoped(s[k]),
               NEW k \in (m + 1) .. (last + 1)
        PROVE  open(s, k) = open(s, m + 1)
    <2> HIDE DEF n, n2
    <2>1. \A l \in 1 .. (k - 1) : Scoped(s[l]) => l \in 1 .. m
      BY <1>1, <1>4
    <2>2. 1 .. m \subseteq 1 .. (k - 1) /\ (m + 1) - 1 = m
      BY <1>1, <1>4
    <2> QED BY <2>1, <2>2
  <1>5. ASSUME Unscoped(stk, stk2, m)
        PROVE  /\ \A k \in (m + 1) .. (n + 1) : open(stk, k) = open(stk, m + 1)
               /\ \A k \in (m + 1) .. (n2 + 1) : open(stk2, k) = open(stk2, m + 1)
    <2>1. /\ \A k \in (m + 1) .. n : ~Scoped(stk[k])
          /\ \A k \in (m + 1) .. n2 : ~Scoped(stk2[k])
      BY <1>5 DEF Unscoped
    <2> HIDE DEF open, n, n2
    <2>2. m <= n
      BY <1>1
    <2>3. \A k \in (m + 1) .. (n + 1) : open(stk, k) = open(stk, m + 1)
      BY <1>1, <1>4, <2>1, <2>2
    <2>4. \A k \in (m + 1) .. (n2 + 1) : open(stk2, k) = open(stk2, m + 1)
      BY <1>1, <1>4, <2>1
    <2> QED BY <2>3, <2>4
  <1>6. m + 1 \in 1 .. (m + 1)
    BY <1>1
  <1> HIDE DEF open, n, n2
  <1>7. /\ \A k \in 1 .. (m + 1) : Scopes(stk2, k) = Scopes(stk, k)
        /\ Unscoped(stk, stk2, m) =>
             /\ \A k \in (m + 1) .. (n + 1) : Scopes(stk, k) = Scopes(stk, m + 1)
             /\ \A k \in (m + 1) .. (n2 + 1) : Scopes(stk2, k) = Scopes(stk, m + 1)
    BY <1>2, <1>3, <1>5, <1>6
  <1> QED BY <1>7 DEF n, n2

\* What is now is in the scopes that are open at the end of the code.
LEMMA NowLevel ==
  ASSUME NEW code, NEW code2, NEW stk, NEW stk2, NEW m, NEW patched, NEW now,
         Nest(code, stk), Levels(code, stk),
         Grows(code, code2, patched, Own(stk2), now), Silent(code, code2),
         Shifts(stk, stk2, m, patched, now), Unscoped(stk, stk2, m),
         now = Now(code, code2, stk, m), NEW p \in now
  PROVE  Depth(code2, p) = Scopes(stk, m + 1)
  <1>1. /\ code \in Seq(Instruction) /\ code2 \in Seq(Instruction)
        /\ stk \in Seq(Activation) /\ stk2 \in Seq(Activation)
        /\ m \in 0 .. Len(stk) /\ m <= Len(stk2)
        /\ \A k \in 1 .. m : stk2[k] = stk[k]
    BY DEF Grows, Shifts
  <1>0. Extends(code, code2)
    BY GrowsExtends
  <1>2. \A k \in (m + 1) .. (Len(stk) + 1) : Scopes(stk, k) = Scopes(stk, m + 1)
    BY <1>1, ScopesKept
  <1>3. CASE p \in Len(code) .. Len(code2)
    <2>1. Depth(code2, p) = Depth(code, Len(code))
      BY <1>0, <1>1, <1>3, DepthSilent
    <2>2. Depth(code, Len(code)) = Scopes(stk, Len(stk) + 1)
      BY DEF Levels
    <2>3. Len(stk) + 1 \in (m + 1) .. (Len(stk) + 1)
      BY <1>1
    <2> QED BY <1>2, <2>1, <2>2, <2>3
  <1>4. CASE p \in Dropped(stk, m)
    <2>1. PICK k \in (m + 1) .. Len(stk) : p \in Positions(stk[k])
      BY <1>4 DEF Dropped
    <2>2. k \in DOMAIN stk /\ k \in (m + 1) .. (Len(stk) + 1)
      BY <1>1
    <2>3. p \in 0 .. Len(code) /\ Depth(code, p) = Scopes(stk, k)
      BY <2>1, <2>2 DEF Nest, Levels
    <2> QED BY <1>0, <1>1, <1>2, <2>2, <2>3, DepthKept
  <1> QED BY <1>3, <1>4 DEF Now

\* The invariant of code and stack.
Nested(code, stk) ==
  /\ code \in Seq(Instruction)
  /\ stk \in Seq(Activation)
  /\ Nest(code, stk)
  /\ Levels(code, stk)

\* Every address that Levels is about lies within the code.
LEMMA Bounds ==
  ASSUME NEW code, NEW stk, Nested(code, stk)
  PROVE  /\ \A j \in Final(code, stk) :
              j \in 0 .. Len(code) /\ code[j + 1].arg \in 0 .. Len(code)
         /\ \A a \in Addr(code) : code[a + 1].op = "Ldf" =>
              a \in 0 .. Len(code) /\ code[a + 1].arg \in 0 .. Len(code)
         /\ \A k \in DOMAIN stk :
              /\ Positions(stk[k]) \subseteq 0 .. Len(code)
              /\ stk[k].site = "fun" => stk[k].start \in 0 .. Len(code)
  <1> DEFINE n == Len(code)
  <1>1. code \in Seq(Instruction) /\ stk \in Seq(Activation)
    BY DEF Nested
  <1>2. n \in Nat /\ Addr(code) = 0 .. (n - 1)
    BY <1>1 DEF Addr
  <1>3. Addr(code) \subseteq 0 .. n
    <2> HIDE DEF n
    <2> QED BY <1>2
  <1>4. \A j \in Final(code, stk) : j \in 0 .. n /\ code[j + 1].arg \in 0 .. n
    BY <1>3 DEF Nested, Nest, Final
  <1>5. ASSUME NEW a \in Addr(code), code[a + 1].op = "Ldf"
        PROVE  a \in 0 .. n /\ code[a + 1].arg \in 0 .. n
    <2> DEFINE s == code[a + 1].arg
    <2>1. s <= a
      BY <1>5 DEF Nested, Levels
    <2>2. code[a + 1] \in Instruction
      BY <1>1, <1>2
    <2>3. s \in Nat
      BY <2>2 DEF Instruction
    <2> HIDE DEF s, n
    <2>4. a \in 0 .. n /\ s \in 0 .. n
      BY <1>2, <2>1, <2>3
    <2> QED BY <2>4 DEF s
  <1>6. ASSUME NEW k \in DOMAIN stk
        PROVE  /\ Positions(stk[k]) \subseteq 0 .. n
               /\ stk[k].site = "fun" => stk[k].start \in 0 .. n
    <2>1. Positions(stk[k]) \subseteq 0 .. n
      BY DEF Nested, Nest
    <2>2. ASSUME stk[k].site = "fun" PROVE stk[k].start \in 0 .. n
      <3> DEFINE s == stk[k].start
      <3>1. stk[k] \in Activation
        BY <1>1
      <3>2. s \in Nat
        BY <3>1 DEF Activation
      <3>3. s <= n
        BY <2>2 DEF Nested, Nest, Open
      <3> HIDE DEF s, n
      <3>4. s \in 0 .. n
        BY <1>2, <3>2, <3>3
      <3> QED BY <3>4 DEF s
    <2> QED BY <2>1, <2>2
  <1> QED BY <1>4, <1>5, <1>6

LEMMA LevelsKept ==
  ASSUME NEW code, NEW code2, NEW stk, NEW stk2, NEW m, NEW patched, NEW now,
         Nest(code, stk), Levels(code, stk),
         Grows(code, code2, patched, Own(stk2), now), Silent(code, code2),
         Shifts(stk, stk2, m, patched, now), Unscoped(stk, stk2, m),
         now = Now(code, code2, stk, m)
  PROVE  Levels(code2, stk2)
  <1>1. /\ code \in Seq(Instruction) /\ code2 \in Seq(Instruction)
        /\ Len(code) <= Len(code2)
        /\ stk \in Seq(Activation) /\ stk2 \in Seq(Activation)
        /\ m \in 0 .. Len(stk) /\ m <= Len(stk2)
        /\ \A k \in 1 .. m : stk2[k] = stk[k]
    BY DEF Grows, Shifts
  <1>0. Nested(code, stk)
    BY <1>1 DEF Nested
  <1>2. Extends(code, code2)
    BY GrowsExtends
  <1>3. \A a \in 0 .. Len(code) : Depth(code2, a) = Depth(code, a)
    BY <1>1, <1>2, DepthKept
  <1>4. \A a \in Len(code) .. Len(code2) : Depth(code2, a) = Depth(code, Len(code))
    BY <1>1, <1>2, DepthSilent
  <1>5. \A p \in now : Depth(code2, p) = Scopes(stk, m + 1)
    BY NowLevel
  <1>6. /\ \A k \in 1 .. (m + 1) : Scopes(stk2, k) = Scopes(stk, k)
        /\ \A k \in (m + 1) .. (Len(stk2) + 1) : Scopes(stk2, k) = Scopes(stk, m + 1)
    BY <1>1, ScopesKept
  <1>7. ASSUME NEW a \in 0 .. Len(code2)
        PROVE  Depth(code2, a) >= 0
    <2>1. a \in 0 .. Len(code) \/ a \in Len(code) .. Len(code2)
      <3> DEFINE n == Len(code)  n2 == Len(code2)
      <3>1. n \in Nat /\ n2 \in Nat /\ a \in 0 .. n2
        BY <1>1
      <3> HIDE DEF n, n2
      <3>2. a \in 0 .. n \/ a \in n .. n2
        BY <3>1
      <3> QED BY <3>2 DEF n, n2
    <2>2. Len(code) \in 0 .. Len(code)
      BY <1>1
    <2> QED BY <1>3, <1>4, <2>1, <2>2 DEF Levels
  <1>8. ASSUME NEW j \in Final(code2, stk2)
        PROVE  Depth(code2, code2[j + 1].arg) = Depth(code2, j)
    <2>1. CASE j \in Final(code, stk) /\ code2[j + 1] = code[j + 1]
      <3>1. j \in 0 .. Len(code) /\ code[j + 1].arg \in 0 .. Len(code)
        BY <1>0, <2>1, Bounds
      <3>2. Depth(code, code[j + 1].arg) = Depth(code, j)
        BY <2>1 DEF Levels
      <3> QED BY <1>3, <2>1, <3>1, <3>2
    <2>2. CASE j \in now /\ code2[j + 1].arg \in now
      BY <1>5, <2>2
    <2> QED BY <2>1, <2>2, FinalNow
  <1>9. ASSUME NEW a \in Addr(code2), code2[a + 1].op = "Ldf"
        PROVE  /\ code2[a + 1].arg <= a
               /\ Depth(code2, code2[a + 1].arg) = Depth(code2, a)
    <2>1. a \in Addr(code) /\ code2[a + 1] = code[a + 1]
      <3>1. a \in Addr(code) \/ a \in Len(code) .. (Len(code2) - 1)
        BY <1>1 DEF Addr
      <3>2. a \notin patched
        <4>1. a \in patched => code2[a + 1].op \in Jumps
          BY DEF Grows
        <4> QED BY <1>9, <4>1
      <3> QED BY <1>9, <3>1, <3>2 DEF Grows
    <2>2. /\ code[a + 1].arg <= a
          /\ Depth(code, code[a + 1].arg) = Depth(code, a)
      BY <1>9, <2>1 DEF Levels
    <2>3. a \in 0 .. Len(code) /\ code[a + 1].arg \in 0 .. Len(code)
      BY <1>0, <1>9, <2>1, Bounds
    <2> QED BY <1>3, <2>1, <2>2, <2>3
  <1>10. ASSUME NEW k \in DOMAIN stk2
         PROVE  /\ \A p \in Positions(stk2[k]) : Depth(code2, p) = Scopes(stk2, k)
                /\ stk2[k].site = "fun" => Depth(code2, stk2[k].start) = Scopes(stk2, k)
    <2>1. CASE k \in 1 .. m
      <3>1. k \in DOMAIN stk /\ stk2[k] = stk[k] /\ k \in 1 .. (m + 1)
        BY <1>1, <2>1
      <3>2. Scopes(stk2, k) = Scopes(stk, k)
        BY <1>6, <3>1
      <3>3. /\ Positions(stk[k]) \subseteq 0 .. Len(code)
            /\ stk[k].site = "fun" => stk[k].start \in 0 .. Len(code)
        BY <1>0, <3>1, Bounds
      <3>5. /\ \A p \in Positions(stk[k]) : Depth(code, p) = Scopes(stk, k)
            /\ stk[k].site = "fun" => Depth(code, stk[k].start) = Scopes(stk, k)
        BY <3>1 DEF Levels
      <3> QED BY <1>3, <3>1, <3>2, <3>3, <3>5
    <2>2. CASE k \in (m + 1) .. Len(stk2)
      <3>1. stk2[k].site # "fun" /\ Positions(stk2[k]) \subseteq now
        BY <2>2 DEF Shifts
      <3>2. k \in (m + 1) .. (Len(stk2) + 1)
        BY <1>1, <2>2
      <3> QED BY <1>5, <1>6, <3>1, <3>2
    <2> QED BY <1>1, <2>1, <2>2
  <1>11. Depth(code2, Len(code2)) = Scopes(stk2, Len(stk2) + 1)
    <2>1. Len(code2) \in now
      <3> DEFINE n == Len(code)  n2 == Len(code2)
      <3>1. n \in Nat /\ n2 \in Nat /\ n <= n2
        BY <1>1
      <3>2. n .. n2 \subseteq now
        BY DEF Now
      <3> HIDE DEF n, n2
      <3>3. n2 \in now
        BY <3>1, <3>2
      <3> QED BY <3>3 DEF n2
    <2>2. Len(stk2) + 1 \in (m + 1) .. (Len(stk2) + 1)
      BY <1>1
    <2> QED BY <1>5, <1>6, <2>1, <2>2
  <1> QED BY <1>7, <1>8, <1>9, <1>10, <1>11 DEF Levels

-----------------------------------------------------------------------------
(* Blocks with locals, functions *)

LEMMA NestedKept ==
  ASSUME NEW code, NEW code2, NEW stk, NEW stk2, NEW m, NEW patched, NEW now,
         Nested(code, stk),
         Grows(code, code2, patched, Own(stk2), now), Silent(code, code2),
         Shifts(stk, stk2, m, patched, now), Unscoped(stk, stk2, m),
         now = Now(code, code2, stk, m)
  PROVE  Nested(code2, stk2)
  <1>1. Nest(code, stk) /\ Levels(code, stk)
    BY DEF Nested
  <1>2. code2 \in Seq(Instruction) /\ stk2 \in Seq(Activation)
    BY DEF Grows, Shifts
  <1>3. Nest(code2, stk2)
    BY <1>1, NestKept
  <1>4. Levels(code2, stk2)
    BY <1>1, LevelsKept
  <1> QED BY <1>2, <1>3, <1>4 DEF Nested

\* How the code of a step is put together.
Builds(code, code2, patched, own2, now) ==
  Grows(code, code2, patched, own2, now) /\ Silent(code, code2)

LEMMA BuildsNothing ==
  ASSUME NEW code \in Seq(Instruction), NEW own2, NEW now
  PROVE  Builds(code, code, {}, own2, now)
  <1>1. Len(code) \in Nat
    OBVIOUS
  <1>2. Len(code) .. (Len(code) - 1) = {}
    BY <1>1
  <1> QED BY <1>1, <1>2 DEF Builds, Grows, Silent

LEMMA GrowsAppend ==
  ASSUME NEW code, NEW code2, NEW patched, NEW own2, NEW now,
         Grows(code, code2, patched, own2, now),
         NEW i \in Instruction, i.op # "Ldf",
         i.op \in Jumps => Len(code2) \in own2 \/ i.arg \in now
  PROVE  Grows(code, Append(code2, i), patched, own2, now)
  <1> DEFINE n == Len(code)  n2 == Len(code2)  longer == Append(code2, i)
  <1>1. code \in Seq(Instruction) /\ code2 \in Seq(Instruction) /\ Len(code) <= Len(code2)
    BY DEF Grows
  <1>2. /\ n \in Nat /\ n2 \in Nat /\ n <= n2
        /\ Addr(code) = 0 .. (n - 1) /\ Addr(code2) = 0 .. (n2 - 1)
    BY <1>1 DEF Addr
  <1>3. /\ longer \in Seq(Instruction)
        /\ Len(longer) = n2 + 1
        /\ \A b \in Addr(code2) : longer[b + 1] = code2[b + 1]
        /\ longer[n2 + 1] = i
    BY <1>1, AppendFacts
  <1> HIDE DEF n, n2, longer
  <1>4. Addr(code) \subseteq Addr(code2) /\ n <= n2 + 1
    BY <1>2
  <1>5. /\ \A b \in Addr(code) \ patched : longer[b + 1] = code[b + 1]
        /\ \A b \in patched : /\ longer[b + 1].op = code[b + 1].op
                              /\ code[b + 1].op \in Jumps
                              /\ longer[b + 1].arg \in now
    BY <1>3, <1>4 DEF Grows
  <1>6. ASSUME NEW b \in n .. ((n2 + 1) - 1)
        PROVE  /\ longer[b + 1].op # "Ldf"
               /\ longer[b + 1].op \in Jumps => b \in own2 \/ longer[b + 1].arg \in now
    <2>1. b = n2 \/ (b \in n .. (n2 - 1) /\ b \in Addr(code2))
      BY <1>2
    <2>2. CASE b = n2
      BY <1>3, <2>2 DEF n2
    <2>3. CASE b \in n .. (n2 - 1) /\ b \in Addr(code2)
      BY <1>3, <2>3 DEF Grows, n, n2
    <2> QED BY <2>1, <2>2, <2>3
  <1>7. Len(code) <= Len(longer)
    BY <1>3, <1>4 DEF n
  <1>8. patched \subseteq Addr(code)
    BY DEF Grows
  <1>9. \A b \in Len(code) .. (Len(longer) - 1) :
          /\ longer[b + 1].op # "Ldf"
          /\ longer[b + 1].op \in Jumps => b \in own2 \/ longer[b + 1].arg \in now
    BY <1>3, <1>6 DEF n
  <1>10. Grows(code, longer, patched, own2, now)
    BY <1>1, <1>3, <1>5, <1>7, <1>8, <1>9 DEF Grows
  <1> QED BY <1>10 DEF longer

LEMMA BuildsAppend ==
  ASSUME NEW code, NEW code2, NEW patched, NEW own2, NEW now,
         Builds(code, code2, patched, own2, now),
         NEW i \in Instruction, i.op \notin {"Ldf", "EnterScope", "ExitScope"},
         i.op \in Jumps => Len(code2) \in own2 \/ i.arg \in now
  PROVE  Builds(code, Append(code2, i), patched, own2, now)
  <1> DEFINE n == Len(code)  n2 == Len(code2)  longer == Append(code2, i)
  <1>1. Grows(code, code2, patched, own2, now) /\ Silent(code, code2)
    BY DEF Builds
  <1>2. Grows(code, longer, patched, own2, now)
    BY <1>1, GrowsAppend
  <1>3. code \in Seq(Instruction) /\ code2 \in Seq(Instruction)
    BY <1>1 DEF Grows
  <1>4. /\ n \in Nat /\ n2 \in Nat /\ Addr(code2) = 0 .. (n2 - 1)
    BY <1>3 DEF Addr
  <1>5. /\ Len(longer) = n2 + 1
        /\ \A b \in Addr(code2) : longer[b + 1] = code2[b + 1]
        /\ longer[n2 + 1] = i
    BY <1>3, AppendFacts
  <1>6. \A b \in n .. (n2 - 1) : code2[b + 1].op \notin {"EnterScope", "ExitScope"}
    BY <1>1 DEF Silent
  <1> HIDE DEF n, n2, longer
  <1>7. ASSUME NEW b \in n .. ((n2 + 1) - 1)
        PROVE  longer[b + 1].op \notin {"EnterScope", "ExitScope"}
    <2>1. b = n2 \/ (b \in n .. (n2 - 1) /\ b \in Addr(code2))
      BY <1>4
    <2> QED BY <1>5, <1>6, <2>1
  <1>8. Silent(code, longer)
    BY <1>5, <1>7 DEF Silent, n
  <1> QED BY <1>2, <1>8 DEF Builds, longer

LEMMA BuildsPatch ==
  ASSUME NEW code, NEW code2, NEW patched, NEW own2, NEW now,
         Builds(code, code2, patched, own2, now),
         NEW j \in Addr(code2), code2[j + 1].op \in Jumps,
         NEW t \in Nat, t \in now
  PROVE  Builds(code, patchJump(code2, j, t), patched \cup ({j} \cap Addr(code)), own2, now)
  <1> DEFINE n == Len(code)  n2 == Len(code2)  code3 == patchJump(code2, j, t)
             patched3 == patched \cup ({j} \cap Addr(code))
  <1>1. Grows(code, code2, patched, own2, now) /\ Silent(code, code2)
    BY DEF Builds
  <1>2. code \in Seq(Instruction) /\ code2 \in Seq(Instruction) /\ Len(code) <= Len(code2)
    BY <1>1 DEF Grows
  <1>3. /\ n \in Nat /\ n2 \in Nat /\ n <= n2
        /\ Addr(code) = 0 .. (n - 1) /\ Addr(code2) = 0 .. (n2 - 1)
    BY <1>2 DEF Addr
  <1>4. /\ code3 \in Seq(Instruction)
        /\ Len(code3) = n2
        /\ \A b \in Addr(code2) \ {j} : code3[b + 1] = code2[b + 1]
        /\ code3[j + 1].op = code2[j + 1].op
        /\ code3[j + 1].arg = t
    BY <1>2, PatchFacts
  <1> HIDE DEF code3
  <1>5. Addr(code) \subseteq Addr(code2)
    <2> HIDE DEF n, n2
    <2> QED BY <1>3
  <1>6. \A b \in n .. (n2 - 1) : b \in Addr(code2)
    <2> HIDE DEF n, n2
    <2> QED BY <1>3
  <1>7. ASSUME NEW b \in Addr(code) \ patched3
        PROVE  code3[b + 1] = code[b + 1]
    <2>1. b \in Addr(code) \ patched /\ b # j
      OBVIOUS
    <2>2. code2[b + 1] = code[b + 1]
      BY <1>1, <2>1 DEF Grows
    <2> QED BY <1>4, <1>5, <2>1, <2>2
  <1>8. ASSUME NEW b \in patched3
        PROVE  /\ b \in Addr(code)
               /\ code3[b + 1].op = code[b + 1].op
               /\ code[b + 1].op \in Jumps
               /\ code3[b + 1].arg \in now
    <2>1. b \in Addr(code) /\ code2[b + 1].op = code[b + 1].op
      BY <1>1 DEF Grows
    <2>2. CASE b = j
      BY <1>4, <2>1, <2>2
    <2>3. CASE b # j
      <3>1. b \in patched
        BY <2>3
      <3>2. code[b + 1].op \in Jumps /\ code2[b + 1].arg \in now
        BY <1>1, <3>1 DEF Grows
      <3> QED BY <1>4, <1>5, <2>1, <2>3, <3>2
    <2> QED BY <2>2, <2>3
  <1>9. ASSUME NEW b \in Len(code) .. (Len(code3) - 1)
        PROVE  /\ code3[b + 1].op \notin {"Ldf", "EnterScope", "ExitScope"}
               /\ code3[b + 1].op \in Jumps => b \in own2 \/ code3[b + 1].arg \in now
    <2>1. b \in n .. (n2 - 1)
      BY <1>4
    <2>2. /\ code2[b + 1].op \notin {"Ldf", "EnterScope", "ExitScope"}
          /\ code2[b + 1].op \in Jumps => b \in own2 \/ code2[b + 1].arg \in now
      <3>1. code2[b + 1].op # "Ldf"
        BY <1>1, <2>1 DEF Grows
      <3>2. code2[b + 1].op \in Jumps => b \in own2 \/ code2[b + 1].arg \in now
        BY <1>1, <2>1 DEF Grows
      <3>3. code2[b + 1].op \notin {"EnterScope", "ExitScope"}
        BY <1>1, <2>1 DEF Silent
      <3> QED BY <3>1, <3>2, <3>3
    <2>3. CASE b = j
      BY <1>4, <2>2, <2>3
    <2>4. CASE b # j
      <3>1. code3[b + 1] = code2[b + 1]
        BY <1>4, <1>6, <2>1, <2>4
      <3> QED BY <2>2, <3>1
    <2> QED BY <2>3, <2>4
  <1> HIDE DEF patched3
  <1>10. patched3 \subseteq Addr(code)
    BY <1>8
  <1>11. Grows(code, code3, patched3, own2, now)
    <2>1. Len(code) <= Len(code3)
      BY <1>2, <1>4
    <2> QED BY <1>2, <1>4, <1>7, <1>8, <1>9, <1>10, <2>1 DEF Grows
  <1>12. Silent(code, code3)
    BY <1>9 DEF Silent
  <1> QED BY <1>11, <1>12 DEF Builds, code3, patched3

\* How the stack of a step comes about.
LEMMA ShiftPush ==
  ASSUME NEW stk \in Seq(Activation), NEW a \in Activation, NEW now,
         a.site # "fun", Positions(a) \subseteq now
  PROVE  /\ Shifts(stk, Append(stk, a), Len(stk), {}, now)
         /\ ~Scoped(a) => Unscoped(stk, Append(stk, a), Len(stk))
         /\ Own(stk) \subseteq Own(Append(stk, a))
         /\ Owns(a) => a.jump \in Own(Append(stk, a))
  <1> DEFINE n == Len(stk)  stk2 == Append(stk, a)
  <1>1. n \in Nat
    OBVIOUS
  <1>2. /\ stk2 \in Seq(Activation) /\ Len(stk2) = n + 1
        /\ \A k \in 1 .. n : stk2[k] = stk[k]
        /\ stk2[n + 1] = a
    OBVIOUS
  <1>3. Own(stk2) = Own(stk) \cup (IF Owns(a) THEN {a.jump} ELSE {})
    BY OwnAppend
  <1> HIDE DEF n, stk2
  <1>4. (n + 1) .. n = {} /\ (n + 1) .. (n + 1) = {n + 1} /\ n \in 0 .. n /\ n <= n + 1
    BY <1>1
  <1>5. Shifts(stk, stk2, n, {}, now)
    BY <1>2, <1>4 DEF Shifts, n
  <1>6. ~Scoped(a) => Unscoped(stk, stk2, n)
    BY <1>2, <1>4 DEF Unscoped, n
  <1> QED BY <1>3, <1>5, <1>6 DEF n, stk2

LEMMA ShiftStay ==
  ASSUME NEW stk \in Seq(Activation), NEW now
  PROVE  /\ Shifts(stk, stk, Len(stk), {}, now)
         /\ Unscoped(stk, stk, Len(stk))
  <1> DEFINE n == Len(stk)
  <1>1. n \in Nat
    OBVIOUS
  <1> HIDE DEF n
  <1>2. (n + 1) .. n = {} /\ n \in 0 .. n /\ n <= n
    BY <1>1
  <1> QED BY <1>2 DEF Shifts, Unscoped, n

Last(stk) == stk[Len(stk)]
Front(stk) == SubSeq(stk, 1, Len(stk) - 1)

\* The jump of the innermost activation, which the step patches.
Mine(stk) == {p \in {Last(stk).jump} : Owns(Last(stk))}

LEMMA DroppedLast ==
  ASSUME NEW stk \in Seq(Activation)
  PROVE  /\ Dropped(stk, Len(stk)) = {}
         /\ stk # <<>> => Dropped(stk, Len(stk) - 1) = Positions(Last(stk))
  <1> DEFINE n == Len(stk)
  <1>1. n \in Nat
    OBVIOUS
  <1> HIDE DEF n
  <1>2. (n + 1) .. n = {} /\ ((n - 1) + 1) .. n = {n}
    BY <1>1
  <1> QED BY <1>2 DEF Dropped, Last, n

LEMMA ShiftPop ==
  ASSUME NEW stk \in Seq(Activation), stk # <<>>, NEW now, Last(stk).site # "fun"
  PROVE  /\ Shifts(stk, Front(stk), Len(stk) - 1, Mine(stk), now)
         /\ ~Scoped(Last(stk)) => Unscoped(stk, Front(stk), Len(stk) - 1)
         /\ \A a \in Activation :
              a.site # "fun" /\ Positions(a) \subseteq now =>
                /\ Shifts(stk, Append(Front(stk), a), Len(stk) - 1, Mine(stk), now)
                /\ ~Scoped(Last(stk)) /\ ~Scoped(a) =>
                     Unscoped(stk, Append(Front(stk), a), Len(stk) - 1)
  <1> DEFINE n == Len(stk)  m == n - 1  front == Front(stk)  l == Last(stk)
  <1>1. n \in Nat /\ n > 0 /\ m \in Nat
    OBVIOUS
  <1>2. /\ front \in Seq(Activation) /\ Len(front) = m
        /\ \A k \in 1 .. m : front[k] = stk[k]
        /\ stk[n] = l
    <2>1. front \in Seq(Activation) /\ l \in Activation /\ stk = Append(front, l)
      BY DEF Front, Last
    <2> HIDE DEF front, l
    <2>2. Len(stk) = Len(front) + 1 /\ Len(front) \in Nat
      BY <2>1
    <2>3. \A k \in 1 .. Len(front) : stk[k] = front[k]
      BY <2>1
    <2>4. stk[Len(front) + 1] = l
      BY <2>1
    <2>5. Len(front) = m
      BY <2>2
    <2> QED BY <2>1, <2>2, <2>3, <2>4, <2>5
  <1>3. \A a \in Activation :
          /\ Append(front, a) \in Seq(Activation)
          /\ Len(Append(front, a)) = m + 1
          /\ \A k \in 1 .. m : Append(front, a)[k] = stk[k]
          /\ Append(front, a)[m + 1] = a
    BY <1>2
  <1>4. Mine(stk) \subseteq Dropped(stk, m) /\ (Owns(l) => l.jump \in Mine(stk))
    BY DroppedLast DEF Mine, Positions
  <1> HIDE DEF n, front, l
  <1>5. /\ (m + 1) .. n = {n} /\ (m + 1) .. m = {} /\ (m + 1) .. (m + 1) = {m + 1}
        /\ m \in 0 .. n /\ m <= m /\ m <= m + 1
    BY <1>1
  <1> HIDE DEF m
  <1>6. l.site # "fun"
    BY DEF l
  <1>7. Shifts(stk, front, m, Mine(stk), now)
    BY <1>2, <1>4, <1>5, <1>6 DEF Shifts, n
  <1>8. ~Scoped(l) => Unscoped(stk, front, m)
    BY <1>2, <1>5 DEF Unscoped, n
  <1>9. ASSUME NEW a \in Activation, a.site # "fun", Positions(a) \subseteq now
        PROVE  /\ Shifts(stk, Append(front, a), m, Mine(stk), now)
               /\ ~Scoped(l) /\ ~Scoped(a) => Unscoped(stk, Append(front, a), m)
    <2> DEFINE stk2 == Append(front, a)
    <2>1. /\ stk2 \in Seq(Activation) /\ Len(stk2) = m + 1
          /\ \A k \in 1 .. m : stk2[k] = stk[k]
          /\ stk2[m + 1] = a
      BY <1>3
    <2> HIDE DEF stk2
    <2>2. Shifts(stk, stk2, m, Mine(stk), now)
      BY <1>2, <1>4, <1>5, <1>6, <1>9, <2>1 DEF Shifts, n
    <2>3. ~Scoped(l) /\ ~Scoped(a) => Unscoped(stk, stk2, m)
      BY <1>2, <1>5, <2>1 DEF Unscoped, n
    <2> QED BY <2>2, <2>3 DEF stk2
  <1> QED BY <1>7, <1>8, <1>9 DEF m, n, front, l

\* One instruction more.
LEMMA DepthAppend ==
  ASSUME NEW code \in Seq(Instruction), NEW i \in Instruction
  PROVE  /\ i.op = "EnterScope" =>
              Depth(Append(code, i), Len(code) + 1) = Depth(code, Len(code)) + 1
         /\ i.op = "ExitScope" =>
              Depth(Append(code, i), Len(code) + 1) = Depth(code, Len(code)) - 1
  <1> DEFINE n == Len(code)  longer == Append(code, i)
  <1>1. n \in Nat /\ Addr(code) = 0 .. (n - 1)
    BY DEF Addr
  <1>2. /\ \A b \in Addr(code) : longer[b + 1] = code[b + 1]
        /\ longer[n + 1] = i
    BY AppendFacts
  <1> HIDE DEF n, longer
  <1>3. \A op : /\ i.op = op => Before(longer, n + 1, op) = Before(code, n, op) \cup {n}
                /\ i.op # op => Before(longer, n + 1, op) = Before(code, n, op)
                /\ n \notin Before(code, n, op)
    <2>1. 0 .. ((n + 1) - 1) = (0 .. (n - 1)) \cup {n} /\ n \notin 0 .. (n - 1)
      BY <1>1
    <2>2. \A b \in 0 .. (n - 1) : longer[b + 1].op = code[b + 1].op
      BY <1>1, <1>2
    <2> QED BY <1>2, <2>1, <2>2 DEF Before
  <1> DEFINE size(op) == Cardinality(Before(code, n, op))
             size2(op) == Cardinality(Before(longer, n + 1, op))
  <1>4. \A op : /\ size(op) \in Nat
                /\ i.op = op => size2(op) = size(op) + 1
                /\ i.op # op => size2(op) = size(op)
    <2> TAKE op
    <2>1. IsFiniteSet(Before(code, n, op)) /\ size(op) \in Nat
      BY <1>1, BeforeFinite
    <2>2. Cardinality(Before(code, n, op) \cup {n}) = size(op) + 1
      BY <1>3, <2>1, FS_AddElement
    <2> QED BY <1>3, <2>1, <2>2
  <1>5. /\ Depth(longer, n + 1) = size2("EnterScope") - size2("ExitScope")
        /\ Depth(code, n) = size("EnterScope") - size("ExitScope")
    BY DepthBefore
  <1> HIDE DEF size, size2
  <1>6. /\ i.op = "EnterScope" => Depth(longer, n + 1) = Depth(code, n) + 1
        /\ i.op = "ExitScope" => Depth(longer, n + 1) = Depth(code, n) - 1
    <2> DEFINE e == size("EnterScope")  x == size("ExitScope")
               e2 == size2("EnterScope")  x2 == size2("ExitScope")
    <2>1. /\ e \in Nat /\ x \in Nat
          /\ i.op = "EnterScope" => e2 = e + 1 /\ x2 = x
          /\ i.op = "ExitScope" => e2 = e /\ x2 = x + 1
      BY <1>4
    <2>2. Depth(longer, n + 1) = e2 - x2 /\ Depth(code, n) = e - x
      BY <1>5
    <2> HIDE DEF e, x, e2, x2
    <2> QED BY <2>1, <2>2
  <1> QED BY <1>6 DEF n, longer

LEMMA ScopesType ==
  ASSUME NEW stk, NEW k \in Nat
  PROVE  Scopes(stk, k) \in Nat
  <1> DEFINE open == {l \in 1 .. (k - 1) : Scoped(stk[l])}
  <1>1. IsFiniteSet(1 .. (k - 1)) /\ open \subseteq 1 .. (k - 1)
    BY FS_Interval
  <1>2. Cardinality(open) \in Nat
    BY <1>1, FS_Subset, FS_CardinalityType
  <1> QED BY <1>2 DEF Scopes

LEMMA ScopesAppend ==
  ASSUME NEW stk \in Seq(Activation), NEW a \in Activation
  PROVE  /\ Scoped(a) =>
              Scopes(Append(stk, a), Len(stk) + 2) = Scopes(stk, Len(stk) + 1) + 1
         /\ ~Scoped(a) =>
              Scopes(Append(stk, a), Len(stk) + 2) = Scopes(stk, Len(stk) + 1)
         /\ \A k \in 1 .. (Len(stk) + 1) : Scopes(Append(stk, a), k) = Scopes(stk, k)
  <1> DEFINE n == Len(stk)  longer == Append(stk, a)
             open == {l \in 1 .. n : Scoped(stk[l])}
             open2 == {l \in 1 .. (n + 1) : Scoped(longer[l])}
  <1>1. /\ n \in Nat
        /\ \A l \in 1 .. n : longer[l] = stk[l]
        /\ longer[n + 1] = a
    OBVIOUS
  <1>2. \A k \in 1 .. (n + 1) : Scopes(longer, k) = Scopes(stk, k)
    <2> HIDE DEF n, longer
    <2>1. ASSUME NEW k \in 1 .. (n + 1)
          PROVE  {l \in 1 .. (k - 1) : Scoped(longer[l])} = {l \in 1 .. (k - 1) : Scoped(stk[l])}
      <3>1. 1 .. (k - 1) \subseteq 1 .. n
        BY <1>1
      <3> QED BY <1>1, <3>1
    <2> QED BY <2>1 DEF Scopes
  <1>3. Scopes(longer, n + 2) = Cardinality(open2) /\ Scopes(stk, n + 1) = Cardinality(open)
    <2>1. (n + 2) - 1 = n + 1 /\ (n + 1) - 1 = n
      BY <1>1
    <2>2. \A s, k, q : k - 1 = q => Scopes(s, k) = Cardinality({l \in 1 .. q : Scoped(s[l])})
      BY DEF Scopes
    <2> HIDE DEF n, longer
    <2>3. Scopes(longer, n + 2) = Cardinality({l \in 1 .. (n + 1) : Scoped(longer[l])})
      BY <2>1, <2>2, Zenon
    <2>4. Scopes(stk, n + 1) = Cardinality({l \in 1 .. n : Scoped(stk[l])})
      BY <2>1, <2>2, Zenon
    <2> QED BY <2>3, <2>4
  <1>4. IsFiniteSet(open) /\ n + 1 \notin open
    <2>1. open \subseteq 1 .. n
      OBVIOUS
    <2>3. IsFiniteSet(1 .. n)
      BY <1>1, FS_Interval
    <2> HIDE DEF n
    <2>2. n + 1 \notin 1 .. n
      BY <1>1
    <2> QED BY <2>1, <2>2, <2>3, FS_Subset
  <1>5. open2 = IF Scoped(a) THEN open \cup {n + 1} ELSE open
    <2> HIDE DEF n, longer
    <2>1. 1 .. (n + 1) = (1 .. n) \cup {n + 1}
      BY <1>1
    <2> QED BY <1>1, <2>1
  <1> HIDE DEF n, longer, open, open2
  <1>6. Cardinality(open \cup {n + 1}) = Cardinality(open) + 1
    BY <1>4, FS_AddElement
  <1>7. /\ Scoped(a) => Scopes(longer, n + 2) = Scopes(stk, n + 1) + 1
        /\ ~Scoped(a) => Scopes(longer, n + 2) = Scopes(stk, n + 1)
    BY <1>3, <1>5, <1>6
  <1> QED BY <1>2, <1>7 DEF n, longer

\* A block with locals enters its scope.
LEMMA EnterNested ==
  ASSUME NEW code, NEW stk, Nested(code, stk),
         NEW i \in Instruction, i.op = "EnterScope",
         NEW a \in Activation, Scoped(a)
  PROVE  Nested(Append(code, i), Append(stk, a))
  <1> DEFINE code2 == Append(code, i)  stk2 == Append(stk, a)
             n == Len(code)  m == Len(stk)
             now == Now(code, code2, stk, m)
  <1>1. code \in Seq(Instruction) /\ stk \in Seq(Activation) /\ Nest(code, stk)
    BY DEF Nested
  <1>2. a.site = "blk" /\ Positions(a) = {}
    BY DEF Scoped, Positions, Owns, PatchSites, Looping
  <1>3. Shifts(stk, stk2, m, {}, now) /\ Own(stk2) = Own(stk)
    <2>1. Shifts(stk, stk2, m, {}, now)
      BY <1>1, <1>2, ShiftPush
    <2>2. Own(stk2) = Own(stk)
      BY <1>1, <1>2, OwnAppend DEF Owns, PatchSites
    <2> QED BY <2>1, <2>2
  <1>4. Grows(code, code2, {}, Own(stk2), now)
    <2> HIDE DEF now, stk2
    <2>1. Grows(code, code, {}, Own(stk2), now)
      BY <1>1, BuildsNothing DEF Builds
    <2> QED BY <2>1, GrowsAppend
  <1>5. Nest(code2, stk2)
    <2> HIDE DEF code2, stk2, m
    <2> QED BY <1>1, <1>3, <1>4, NestKept
  <1>6. /\ Len(code2) = n + 1 /\ code2 \in Seq(Instruction) /\ n \in Nat
        /\ Addr(code2) = Addr(code) \cup {n} /\ Addr(code) = 0 .. (n - 1)
        /\ \A b \in Addr(code) : code2[b + 1] = code[b + 1]
        /\ code2[n + 1] = i
    BY <1>1, AppendFacts DEF Addr
  <1>7. /\ \A b \in 0 .. n : Depth(code2, b) = Depth(code, b)
        /\ Depth(code2, n + 1) = Depth(code, n) + 1
    BY <1>1, <1>6, DepthKept, ExtendsAppend, DepthAppend
  <1>8. /\ Len(stk2) = m + 1 /\ stk2 \in Seq(Activation) /\ m \in Nat
        /\ \A k \in 1 .. m : stk2[k] = stk[k]
        /\ stk2[m + 1] = a
        /\ DOMAIN stk2 = 1 .. (m + 1) /\ DOMAIN stk = 1 .. m
    BY <1>1
  <1>9. /\ Scopes(stk2, m + 2) = Scopes(stk, m + 1) + 1
        /\ \A k \in 1 .. (m + 1) : Scopes(stk2, k) = Scopes(stk, k)
    BY <1>1, ScopesAppend
  <1>10. Final(code2, stk2) = Final(code, stk)
    BY <1>3, <1>6 DEF Final
  <1>11. Levels(code, stk)
    BY DEF Nested
  <1> HIDE DEF code2, stk2
  <1>12. ASSUME NEW b \in 0 .. (n + 1) PROVE Depth(code2, b) >= 0
    <2>1. \A c \in 0 .. n : Depth(code, c) >= 0
      BY <1>11 DEF Levels
    <2>2. Depth(code, n) \in Nat
      <3>1. Depth(code, n) = Scopes(stk, m + 1) /\ m + 1 \in Nat
        BY <1>8, <1>11 DEF Levels
      <3> QED BY <3>1, ScopesType
    <2> HIDE DEF n, m
    <2>3. b \in 0 .. n \/ b = n + 1
      BY <1>6
    <2>4. b = n + 1 => Depth(code2, b) >= 0
      BY <1>7, <2>2
    <2> QED BY <1>7, <2>1, <2>3, <2>4
  <1>13. ASSUME NEW j \in Final(code2, stk2)
         PROVE  Depth(code2, code2[j + 1].arg) = Depth(code2, j)
    <2>1. j \in Final(code, stk) /\ j \in Addr(code) /\ code2[j + 1] = code[j + 1]
      BY <1>6, <1>10 DEF Final
    <2>2. j \in 0 .. n /\ code[j + 1].arg \in 0 .. n
      BY <2>1, Bounds
    <2>3. Depth(code, code[j + 1].arg) = Depth(code, j)
      BY <1>11, <2>1 DEF Levels
    <2> HIDE DEF n
    <2> QED BY <1>7, <2>1, <2>2, <2>3
  <1>14. ASSUME NEW b \in Addr(code2), code2[b + 1].op = "Ldf"
         PROVE  /\ code2[b + 1].arg <= b
                /\ Depth(code2, code2[b + 1].arg) = Depth(code2, b)
    <2>1. b \in Addr(code) /\ code2[b + 1] = code[b + 1]
      BY <1>6, <1>14
    <2>2. code[b + 1].arg <= b /\ Depth(code, code[b + 1].arg) = Depth(code, b)
      BY <1>11, <1>14, <2>1 DEF Levels
    <2>3. b \in 0 .. n /\ code[b + 1].arg \in 0 .. n
      BY <1>14, <2>1, Bounds
    <2> HIDE DEF n
    <2> QED BY <1>7, <2>1, <2>2, <2>3
  <1>15. ASSUME NEW k \in DOMAIN stk2
         PROVE  /\ \A p \in Positions(stk2[k]) : Depth(code2, p) = Scopes(stk2, k)
                /\ stk2[k].site = "fun" => Depth(code2, stk2[k].start) = Scopes(stk2, k)
    <2>0. k \in 1 .. m \/ k = m + 1
      <3> HIDE DEF m
      <3> QED BY <1>8
    <2>1. CASE k = m + 1
      BY <1>2, <1>8, <2>1
    <2>2. CASE k \in 1 .. m
      <3>1. stk2[k] = stk[k] /\ k \in DOMAIN stk /\ k \in 1 .. (m + 1) /\ stk[k] \in Activation
        BY <1>1, <1>8, <2>2
      <3>2. Scopes(stk2, k) = Scopes(stk, k)
        BY <1>9, <3>1
      <3>3. /\ Positions(stk[k]) \subseteq 0 .. n
            /\ stk[k].site = "fun" => stk[k].start \in 0 .. n
        BY <3>1, Bounds
      <3>5. /\ \A p \in Positions(stk[k]) : Depth(code, p) = Scopes(stk, k)
            /\ stk[k].site = "fun" => Depth(code, stk[k].start) = Scopes(stk, k)
        BY <1>11, <3>1 DEF Levels
      <3> HIDE DEF n
      <3> QED BY <1>7, <3>1, <3>2, <3>3, <3>5
    <2> QED BY <2>0, <2>1, <2>2
  <1>16. Depth(code2, Len(code2)) = Scopes(stk2, Len(stk2) + 1)
    <2>1. Depth(code, n) = Scopes(stk, m + 1)
      BY <1>11 DEF Levels
    <2>2. Len(stk2) + 1 = m + 2
      BY <1>8
    <2> QED BY <1>6, <1>7, <1>9, <2>1, <2>2
  <1>17. Levels(code2, stk2)
    BY <1>6, <1>12, <1>13, <1>14, <1>15, <1>16 DEF Levels
  <1> QED BY <1>5, <1>6, <1>8, <1>17 DEF Nested, code2, stk2

\* And leaves it.
LEMMA LeaveNested ==
  ASSUME NEW code, NEW stk, Nested(code, stk), stk # <<>>, Scoped(Last(stk)),
         NEW i \in Instruction, i.op = "ExitScope"
  PROVE  Nested(Append(code, i), Front(stk))
  <1> DEFINE code2 == Append(code, i)  stk2 == Front(stk)
             n == Len(code)  m == Len(stk) - 1  a == Last(stk)
             now == Now(code, code2, stk, m)
  <1>1. code \in Seq(Instruction) /\ stk \in Seq(Activation) /\ Nest(code, stk)
    BY DEF Nested
  <1>2. a.site = "blk" /\ ~Owns(a) /\ Mine(stk) = {}
    BY DEF Scoped, Owns, PatchSites, Mine
  <1>3. stk2 \in Seq(Activation) /\ a \in Activation /\ stk = Append(stk2, a)
    BY <1>1 DEF Front, Last
  <1>4. Shifts(stk, stk2, m, {}, now) /\ Own(stk2) = Own(stk)
    <2>1. Shifts(stk, stk2, m, {}, now)
      <3> HIDE DEF now
      <3> QED BY <1>1, <1>2, ShiftPop
    <2>2. Own(stk2) = Own(stk)
      <3> HIDE DEF stk2, a
      <3> QED BY <1>2, <1>3, OwnAppend
    <2> QED BY <2>1, <2>2
  <1>5. Grows(code, code2, {}, Own(stk2), now)
    <2> HIDE DEF now, stk2
    <2>1. Grows(code, code, {}, Own(stk2), now)
      BY <1>1, BuildsNothing DEF Builds
    <2> QED BY <2>1, GrowsAppend
  <1>6. Nest(code2, stk2)
    <2> HIDE DEF code2, stk2, m
    <2> QED BY <1>1, <1>4, <1>5, NestKept
  <1>7. /\ Len(code2) = n + 1 /\ code2 \in Seq(Instruction) /\ n \in Nat
        /\ Addr(code2) = Addr(code) \cup {n} /\ Addr(code) = 0 .. (n - 1)
        /\ \A b \in Addr(code) : code2[b + 1] = code[b + 1]
        /\ code2[n + 1] = i
    BY <1>1, AppendFacts DEF Addr
  <1>8. /\ \A b \in 0 .. n : Depth(code2, b) = Depth(code, b)
        /\ Depth(code2, n + 1) = Depth(code, n) - 1
    BY <1>1, <1>7, DepthKept, ExtendsAppend, DepthAppend
  <1>9. Final(code2, stk2) = Final(code, stk)
    BY <1>4, <1>7 DEF Final
  <1>10. Levels(code, stk)
    BY DEF Nested
  <1> HIDE DEF a, code2, stk2
  <1>11. /\ Len(stk2) = m /\ m \in Nat /\ Len(stk) = m + 1
         /\ \A k \in 1 .. m : stk2[k] = stk[k]
         /\ DOMAIN stk2 = 1 .. m /\ DOMAIN stk = 1 .. (m + 1)
    <2>1. Len(stk) = Len(stk2) + 1 /\ Len(stk2) \in Nat
      BY <1>3
    <2>2. \A k \in 1 .. Len(stk2) : stk2[k] = stk[k]
      BY <1>3
    <2>3. Len(stk2) = m
      BY <2>1
    <2> QED BY <1>1, <1>3, <2>1, <2>2, <2>3
  <1>12. /\ Scopes(stk, m + 2) = Scopes(stk2, m + 1) + 1
         /\ \A k \in 1 .. (m + 1) : Scopes(stk2, k) = Scopes(stk, k)
         /\ Scopes(stk2, m + 1) \in Nat
    <2>1. Scoped(a)
      BY DEF a
    <2>2. /\ Scopes(Append(stk2, a), Len(stk2) + 2) = Scopes(stk2, Len(stk2) + 1) + 1
          /\ \A k \in 1 .. (Len(stk2) + 1) : Scopes(Append(stk2, a), k) = Scopes(stk2, k)
      BY <1>3, <2>1, ScopesAppend
    <2>3. m + 1 \in Nat
      BY <1>11
    <2> HIDE DEF m
    <2> QED BY <1>3, <1>11, <2>2, <2>3, ScopesType
  <1>13. Depth(code2, n + 1) = Scopes(stk2, m + 1)
    <2>1. Depth(code, n) = Scopes(stk, Len(stk) + 1)
      BY <1>10 DEF Levels
    <2>2. Len(stk) + 1 = m + 2
      BY <1>11
    <2> HIDE DEF m, n
    <2> QED BY <1>8, <1>12, <2>1, <2>2
  <1>14. ASSUME NEW b \in 0 .. (n + 1) PROVE Depth(code2, b) >= 0
    <2>1. \A c \in 0 .. n : Depth(code, c) >= 0
      BY <1>10 DEF Levels
    <2> HIDE DEF n, m
    <2>2. b \in 0 .. n \/ b = n + 1
      BY <1>7
    <2> QED BY <1>8, <1>12, <1>13, <2>1, <2>2
  <1>15. ASSUME NEW j \in Final(code2, stk2)
         PROVE  Depth(code2, code2[j + 1].arg) = Depth(code2, j)
    <2>1. j \in Final(code, stk) /\ j \in Addr(code) /\ code2[j + 1] = code[j + 1]
      BY <1>7, <1>9 DEF Final
    <2>2. j \in 0 .. n /\ code[j + 1].arg \in 0 .. n
      BY <2>1, Bounds
    <2>3. Depth(code, code[j + 1].arg) = Depth(code, j)
      BY <1>10, <2>1 DEF Levels
    <2> HIDE DEF n
    <2> QED BY <1>8, <2>1, <2>2, <2>3
  <1>16. ASSUME NEW b \in Addr(code2), code2[b + 1].op = "Ldf"
         PROVE  /\ code2[b + 1].arg <= b
                /\ Depth(code2, code2[b + 1].arg) = Depth(code2, b)
    <2>1. b \in Addr(code) /\ code2[b + 1] = code[b + 1]
      BY <1>7, <1>16
    <2>2. code[b + 1].arg <= b /\ Depth(code, code[b + 1].arg) = Depth(code, b)
      BY <1>10, <1>16, <2>1 DEF Levels
    <2>3. b \in 0 .. n /\ code[b + 1].arg \in 0 .. n
      BY <1>16, <2>1, Bounds
    <2> HIDE DEF n
    <2> QED BY <1>8, <2>1, <2>2, <2>3
  <1>17. ASSUME NEW k \in DOMAIN stk2
         PROVE  /\ \A p \in Positions(stk2[k]) : Depth(code2, p) = Scopes(stk2, k)
                /\ stk2[k].site = "fun" => Depth(code2, stk2[k].start) = Scopes(stk2, k)
    <2>1. stk2[k] = stk[k] /\ k \in DOMAIN stk /\ k \in 1 .. (m + 1)
      <3> HIDE DEF m
      <3> QED BY <1>11
    <2>2. Scopes(stk2, k) = Scopes(stk, k)
      BY <1>12, <2>1
    <2>3. /\ Positions(stk[k]) \subseteq 0 .. n
          /\ stk[k].site = "fun" => stk[k].start \in 0 .. n
      BY <2>1, Bounds
    <2>4. /\ \A p \in Positions(stk[k]) : Depth(code, p) = Scopes(stk, k)
          /\ stk[k].site = "fun" => Depth(code, stk[k].start) = Scopes(stk, k)
      BY <1>10, <2>1 DEF Levels
    <2> HIDE DEF n
    <2> QED BY <1>8, <2>1, <2>2, <2>3, <2>4
  <1>18. Depth(code2, Len(code2)) = Scopes(stk2, Len(stk2) + 1)
    BY <1>7, <1>11, <1>13
  <1>19. Levels(code2, stk2)
    BY <1>7, <1>14, <1>15, <1>16, <1>17, <1>18 DEF Levels
  <1> QED BY <1>3, <1>6, <1>7, <1>19 DEF Nested, code2, stk2

\* compileFnDecl adds the Goto over the body, and the body begins.
LEMMA OpenNested ==
  ASSUME NEW code, NEW stk, Nested(code, stk),
         NEW i \in Instruction, i.op = "Goto",
         NEW a \in Activation, a.site = "fun",
         a.jump = Len(code), a.start = Len(code) + 1
  PROVE  Nested(Append(code, i), Append(stk, a))
  <1> DEFINE code2 == Append(code, i)  stk2 == Append(stk, a)
             n == Len(code)  m == Len(stk)
  <1>1. code \in Seq(Instruction) /\ stk \in Seq(Activation)
        /\ Nest(code, stk) /\ Levels(code, stk)
    BY DEF Nested
  <1>2. Owns(a) /\ Positions(a) = {n} /\ ~Scoped(a) /\ a.start = n + 1
    BY DEF Scoped, Positions, Owns, PatchSites, Looping
  <1>3. /\ Len(code2) = n + 1 /\ code2 \in Seq(Instruction) /\ n \in Nat
        /\ Addr(code2) = Addr(code) \cup {n} /\ Addr(code) = 0 .. (n - 1)
        /\ n \notin Addr(code)
        /\ \A b \in Addr(code) : code2[b + 1] = code[b + 1]
        /\ code2[n + 1] = i
    BY <1>1, AppendFacts DEF Addr
  <1>4. /\ Len(stk2) = m + 1 /\ stk2 \in Seq(Activation) /\ m \in Nat
        /\ \A k \in 1 .. m : stk2[k] = stk[k]
        /\ stk2[m + 1] = a
        /\ DOMAIN stk2 = 1 .. (m + 1) /\ DOMAIN stk = 1 .. m
    BY <1>1
  <1>5. Own(stk2) = Own(stk) \cup {n}
    BY <1>1, <1>2, OwnAppend
  <1>6. Final(code2, stk2) = Final(code, stk) /\ Final(code, stk) \subseteq Addr(code)
    BY <1>3, <1>5 DEF Final
  <1>7. Extends(code, code2) /\ Silent(code, code2)
    <2>1. Extends(code, code2)
      BY <1>1, ExtendsAppend
    <2>2. Silent(code, code2)
      <3> HIDE DEF code2, n
      <3>1. n .. ((n + 1) - 1) = {n}
        BY <1>3
      <3> QED BY <1>3, <3>1 DEF Silent, n
    <2> QED BY <2>1, <2>2
  <1>8. /\ \A b \in 0 .. n : Depth(code2, b) = Depth(code, b)
        /\ Depth(code2, n + 1) = Depth(code, n)
    <2>1. n + 1 \in n .. (n + 1)
      <3> HIDE DEF n
      <3> QED BY <1>3
    <2>2. Len(code2) = n + 1 /\ code2 \in Seq(Instruction)
      BY <1>3
    <2> HIDE DEF code2
    <2>3. \A b \in 0 .. n : Depth(code2, b) = Depth(code, b)
      BY <1>1, <1>7, <2>2, DepthKept
    <2>4. Depth(code2, n + 1) = Depth(code, n)
      BY <1>1, <1>7, <2>1, <2>2, DepthSilent
    <2> QED BY <2>3, <2>4
  <1>9. /\ Scopes(stk2, m + 2) = Scopes(stk, m + 1)
        /\ \A k \in 1 .. (m + 1) : Scopes(stk2, k) = Scopes(stk, k)
    BY <1>1, <1>2, ScopesAppend
  <1>10. Depth(code, n) = Scopes(stk, m + 1)
    BY <1>1 DEF Levels
  <1>11. ASSUME NEW k \in DOMAIN stk2
         PROVE  \/ k \in 1 .. m /\ k \in DOMAIN stk /\ stk2[k] = stk[k] /\ k \in 1 .. (m + 1)
                \/ k = m + 1 /\ stk2[k] = a
    <2> HIDE DEF m, stk2
    <2> QED BY <1>4
  <1>12. ASSUME NEW j \in Final(code, stk)
         PROVE  /\ j \in 0 .. (n - 1) /\ code[j + 1].arg \in 0 .. n
                /\ code2[j + 1] = code[j + 1]
    BY <1>1, <1>3, <1>6 DEF Nest
  <1>13. ASSUME NEW b \in Addr(code2), code2[b + 1].op = "Ldf"
         PROVE  b \in Addr(code) /\ code2[b + 1] = code[b + 1] /\ Inside(code2, b) = Inside(code, b)
    BY <1>3, <1>13 DEF Inside
  <1>14. \A k \in DOMAIN stk :
           /\ Positions(stk[k]) \subseteq 0 .. n
           /\ stk[k].site = "fun" => stk[k].start \in 0 .. n
    BY Bounds
  <1>15. \A b \in Addr(code) : code[b + 1].op = "Ldf" =>
            b \in 0 .. n /\ code[b + 1].arg \in 0 .. n
    BY Bounds
  <1> HIDE DEF code2, stk2
  <1>20. ASSUME NEW b \in Addr(code2), code2[b + 1].op = "Ldf"
         PROVE  Closed(code2, stk2, b)
    <2>1. b \in Addr(code) /\ Closed(code, stk, b) /\ Inside(code2, b) = Inside(code, b)
      BY <1>1, <1>13, <1>20 DEF Nest
    <2>2. code2[b].op = "Reset" /\ b > 0
      <3>1. b - 1 \in Addr(code) /\ (b - 1) + 1 = b /\ b > 0 /\ code[b].op = "Reset"
        BY <1>3, <2>1 DEF Closed
      <3> QED BY <1>3, <3>1
    <2>3. \A j \in Final(code2, stk2) :
            j \in Inside(code, b) <=> code2[j + 1].arg \in Inside(code, b)
      BY <1>6, <1>12, <2>1 DEF Closed
    <2>4. ASSUME NEW k \in DOMAIN stk2, NEW p \in Positions(stk2[k])
          PROVE  p \notin Inside(code, b)
      <3>1. CASE k \in DOMAIN stk /\ stk2[k] = stk[k]
        BY <2>1, <2>4, <3>1 DEF Closed
      <3>2. CASE stk2[k] = a
        <4>1. p = n
          BY <1>2, <2>4, <3>2
        <4> DEFINE s == code[b + 1].arg
        <4>2. s \in 0 .. n /\ b \in 0 .. (n - 1)
          BY <1>3, <1>13, <1>15, <1>20
        <4> HIDE DEF n, s
        <4>3. n \notin s .. (b - 1)
          BY <1>3, <4>2
        <4> QED BY <4>1, <4>3 DEF Inside, s
      <3> QED BY <1>11, <3>1, <3>2
    <2> QED BY <2>1, <2>2, <2>3, <2>4 DEF Closed
  <1>21. ASSUME NEW k \in DOMAIN stk2, stk2[k].site = "fun"
         PROVE  Open(code2, stk2, k)
    <2>1. CASE k \in 1 .. m /\ k \in DOMAIN stk /\ stk2[k] = stk[k]
      <3>1. Open(code, stk, k) /\ stk[k].start \in 0 .. n
        <4>1. Open(code, stk, k)
          BY <1>1, <1>21, <2>1 DEF Nest
        <4>2. stk[k].start \in 0 .. n
          <5> HIDE DEF n
          <5> QED BY <1>14, <1>21, <2>1
        <4> QED BY <4>1, <4>2
      <3>2. stk[k].start <= n + 1 /\ n >= stk[k].start
        <4> DEFINE s == stk[k].start
        <4>1. s \in 0 .. n
          BY <3>1
        <4> HIDE DEF s, n
        <4>2. s <= n + 1 /\ n >= s
          BY <1>3, <4>1
        <4> QED BY <4>2 DEF s
      <3>3. \A j \in Final(code2, stk2) :
              j >= stk[k].start <=> code2[j + 1].arg >= stk[k].start
        BY <1>6, <1>12, <3>1 DEF Open
      <3>4. ASSUME NEW l \in DOMAIN stk2, NEW p \in Positions(stk2[l])
            PROVE  l > k <=> p >= stk[k].start
        <4>1. CASE l \in DOMAIN stk /\ stk2[l] = stk[l]
          BY <3>1, <3>4, <4>1 DEF Open
        <4>2. CASE l = m + 1 /\ stk2[l] = a
          <5>1. p = n
            BY <1>2, <3>4, <4>2
          <5>2. l > k
            <6> HIDE DEF m
            <6> QED BY <1>4, <2>1, <4>2
          <5> QED BY <3>2, <5>1, <5>2
        <4> QED BY <1>11, <4>1, <4>2
      <3> QED BY <1>3, <2>1, <3>2, <3>3, <3>4 DEF Open
    <2>2. CASE k = m + 1 /\ stk2[k] = a
      <3>1. stk2[k].start = n + 1 /\ n + 1 <= Len(code2)
        <4>1. n + 1 <= n + 1
          <5> HIDE DEF n
          <5> QED BY <1>3
        <4> QED BY <1>2, <1>3, <2>2, <4>1
      <3>2. ASSUME NEW j \in Final(code2, stk2)
            PROVE  j >= n + 1 <=> code2[j + 1].arg >= n + 1
        <4> DEFINE t == code2[j + 1].arg
        <4>1. j \in 0 .. (n - 1) /\ t \in 0 .. n
          BY <1>6, <1>12
        <4> HIDE DEF n, t
        <4>2. j >= n + 1 <=> t >= n + 1
          BY <1>3, <4>1
        <4> QED BY <4>2 DEF t
      <3>3. ASSUME NEW l \in DOMAIN stk2, NEW p \in Positions(stk2[l])
            PROVE  l > k <=> p >= n + 1
        <4>1. p \in 0 .. n
          <5>1. CASE l \in DOMAIN stk /\ stk2[l] = stk[l]
            <6> HIDE DEF n
            <6>1. Positions(stk[l]) \subseteq 0 .. n
              BY <1>14, <5>1
            <6> QED BY <3>3, <5>1, <6>1
          <5>2. CASE stk2[l] = a
            <6>1. p = n
              BY <1>2, <3>3, <5>2
            <6> HIDE DEF n
            <6> QED BY <1>3, <6>1
          <5> QED BY <1>11, <5>1, <5>2
        <4> HIDE DEF n, m
        <4> QED BY <1>3, <1>4, <2>2, <4>1
      <3> QED BY <3>1, <3>2, <3>3 DEF Open
    <2> QED BY <1>11, <2>1, <2>2
  <1>22. Nest(code2, stk2)
    <2>1. ASSUME NEW j \in Final(code2, stk2) PROVE code2[j + 1].arg \in 0 .. Len(code2)
      <3> DEFINE t == code2[j + 1].arg
      <3>1. t \in 0 .. n
        BY <1>6, <1>12
      <3> HIDE DEF t, n
      <3>2. t \in 0 .. (n + 1)
        BY <1>3, <3>1
      <3> QED BY <1>3, <3>2 DEF t
    <2>2. ASSUME NEW k \in DOMAIN stk2 PROVE Positions(stk2[k]) \subseteq 0 .. Len(code2)
      <3>1. Positions(stk2[k]) \subseteq (0 .. n) \cup {n}
        <4>1. CASE k \in DOMAIN stk /\ stk2[k] = stk[k]
          <5> HIDE DEF n
          <5>1. Positions(stk[k]) \subseteq 0 .. n
            BY <1>14, <4>1
          <5> QED BY <4>1, <5>1
        <4>2. CASE stk2[k] = a
          <5> HIDE DEF n
          <5> QED BY <1>2, <4>2
        <4> QED BY <1>11, <4>1, <4>2
      <3> HIDE DEF n
      <3>2. (0 .. n) \cup {n} \subseteq 0 .. (n + 1)
        BY <1>3
      <3> QED BY <1>3, <3>1, <3>2
    <2> QED BY <1>20, <1>21, <2>1, <2>2 DEF Nest
  <1>23. ASSUME NEW b \in 0 .. (n + 1) PROVE Depth(code2, b) >= 0
    <2>1. \A c \in 0 .. n : Depth(code, c) >= 0
      BY <1>1 DEF Levels
    <2> HIDE DEF n
    <2>2. b \in 0 .. n \/ b = n + 1
      BY <1>3
    <2>3. n \in 0 .. n
      BY <1>3
    <2> QED BY <1>8, <2>1, <2>2, <2>3
  <1>24. ASSUME NEW j \in Final(code2, stk2)
         PROVE  Depth(code2, code2[j + 1].arg) = Depth(code2, j)
    <2>1. j \in 0 .. n /\ code[j + 1].arg \in 0 .. n
      BY <1>6, Bounds
    <2>2. Depth(code, code[j + 1].arg) = Depth(code, j)
      BY <1>1, <1>6 DEF Levels
    <2> HIDE DEF n
    <2> QED BY <1>6, <1>8, <1>12, <2>1, <2>2
  <1>25. ASSUME NEW b \in Addr(code2), code2[b + 1].op = "Ldf"
         PROVE  /\ code2[b + 1].arg <= b
                /\ Depth(code2, code2[b + 1].arg) = Depth(code2, b)
    <2>1. code[b + 1].arg <= b /\ Depth(code, code[b + 1].arg) = Depth(code, b)
      BY <1>1, <1>13, <1>25 DEF Levels
    <2>2. b \in 0 .. n /\ code[b + 1].arg \in 0 .. n
      BY <1>13, <1>15, <1>25
    <2>3. code2[b + 1] = code[b + 1]
      BY <1>13, <1>25
    <2> HIDE DEF n
    <2> QED BY <1>8, <2>1, <2>2, <2>3
  <1>26. ASSUME NEW k \in DOMAIN stk2
         PROVE  /\ \A p \in Positions(stk2[k]) : Depth(code2, p) = Scopes(stk2, k)
                /\ stk2[k].site = "fun" => Depth(code2, stk2[k].start) = Scopes(stk2, k)
    <2>1. CASE k \in DOMAIN stk /\ stk2[k] = stk[k] /\ k \in 1 .. (m + 1)
      <3>1. /\ \A p \in Positions(stk[k]) : Depth(code, p) = Scopes(stk, k)
            /\ stk[k].site = "fun" => Depth(code, stk[k].start) = Scopes(stk, k)
        BY <1>1, <2>1 DEF Levels
      <3>2. Positions(stk[k]) \subseteq 0 .. n
        <4> HIDE DEF n
        <4> QED BY <1>14, <2>1
      <3>3. stk[k].site = "fun" => stk[k].start \in 0 .. n
        <4> HIDE DEF n
        <4> QED BY <1>14, <2>1
      <3>4. Scopes(stk2, k) = Scopes(stk, k)
        BY <1>9, <2>1
      <3>5. stk2[k] = stk[k]
        BY <2>1
      <3> HIDE DEF n, m
      <3> QED BY <1>8, <3>1, <3>2, <3>3, <3>4, <3>5
    <2>2. CASE k = m + 1 /\ stk2[k] = a
      <3>1. Scopes(stk2, k) = Scopes(stk, m + 1)
        <4> HIDE DEF m
        <4>1. m + 1 \in 1 .. (m + 1)
          BY <1>4
        <4> QED BY <1>9, <2>2, <4>1
      <3>2. n \in 0 .. n
        <4> HIDE DEF n
        <4> QED BY <1>3
      <3> QED BY <1>2, <1>8, <1>10, <2>2, <3>1, <3>2
    <2> QED BY <1>11, <2>1, <2>2
  <1>27. Depth(code2, Len(code2)) = Scopes(stk2, Len(stk2) + 1)
    <2>1. Len(stk2) + 1 = m + 2
      BY <1>4
    <2> QED BY <1>3, <1>8, <1>9, <1>10, <2>1
  <1>28. Levels(code2, stk2)
    BY <1>3, <1>23, <1>24, <1>25, <1>26, <1>27 DEF Levels
  <1> QED BY <1>3, <1>4, <1>22, <1>28 DEF Nested, code2, stk2

LEMMA FnDeclEndFacts ==
  ASSUME NEW code \in Seq(Instruction), NEW j \in Addr(code), NEW s \in Nat
  PROVE  LET n == Len(code)  code2 == FnDeclEnd(code, j, s)
         IN  /\ code2 \in Seq(Instruction) /\ Len(code2) = n + 3
             /\ \A b \in Addr(code) \ {j} : code2[b + 1] = code[b + 1]
             /\ code2[j + 1].op = code[j + 1].op
             /\ code2[j + 1].arg = n + 1
             /\ code2[n + 1] = Instr("Reset")
             /\ code2[n + 2] = [op |-> "Ldf", arg |-> s]
             /\ code2[n + 3] = Instr("Assign")
  <1> DEFINE n == Len(code)
             reset == Append(code, Instr("Reset"))
             ldf   == [op |-> "Ldf", arg |-> s]
             patched == patchJump(reset, j, n + 1)
             one == Append(patched, ldf)
             two == Append(one, Instr("Assign"))
  <1>1. Instr("Reset") \in Instruction /\ Instr("Assign") \in Instruction /\ ldf \in Instruction
    <2>1. ldf \in Instruction
      BY DEF Instruction, Opcodes
    <2>2. Instr("Reset") \in Instruction /\ Instr("Assign") \in Instruction
      BY InstrType DEF Opcodes
    <2> QED BY <2>1, <2>2
  <1>2. n \in Nat /\ Addr(code) = 0 .. (n - 1)
    BY DEF Addr
  <1>3. FnDeclEnd(code, j, s) = patched \o <<ldf, Instr("Assign")>>
    BY DEF FnDeclEnd
  <1> HIDE DEF ldf
  <1>4. /\ reset \in Seq(Instruction) /\ Len(reset) = n + 1
        /\ \A b \in Addr(code) : reset[b + 1] = code[b + 1]
        /\ reset[n + 1] = Instr("Reset")
        /\ Addr(reset) = Addr(code) \cup {n} /\ n \notin Addr(code)
    BY <1>1, AppendFacts
  <1> HIDE DEF reset, n
  <1>5. /\ patched \in Seq(Instruction) /\ Len(patched) = n + 1
        /\ \A b \in Addr(reset) \ {j} : patched[b + 1] = reset[b + 1]
        /\ patched[j + 1].op = reset[j + 1].op
        /\ patched[j + 1].arg = n + 1
    <2>1. j \in Addr(reset) /\ n + 1 \in Nat
      BY <1>2, <1>4
    <2> QED BY <1>4, <2>1, PatchFacts
  <1> HIDE DEF patched
  <1>6. Addr(patched) = 0 .. n /\ Addr(code) \subseteq Addr(patched)
    <2>1. Addr(patched) = 0 .. ((n + 1) - 1)
      BY <1>5 DEF Addr
    <2> QED BY <1>2, <2>1
  <1>7. /\ one \in Seq(Instruction) /\ Len(one) = n + 2
        /\ \A b \in Addr(patched) : one[b + 1] = patched[b + 1]
        /\ one[n + 2] = ldf
        /\ Addr(one) = 0 .. (n + 1)
    <2>1. /\ one \in Seq(Instruction) /\ Len(one) = Len(patched) + 1
          /\ \A b \in Addr(patched) : one[b + 1] = patched[b + 1]
          /\ one[Len(patched) + 1] = ldf
          /\ Addr(one) = Addr(patched) \cup {Len(patched)}
      BY <1>1, <1>5, AppendFacts
    <2> HIDE DEF one
    <2>2. (n + 1) + 1 = n + 2 /\ (0 .. n) \cup {n + 1} = 0 .. (n + 1)
      BY <1>2
    <2> QED BY <1>5, <1>6, <2>1, <2>2
  <1> HIDE DEF one
  <1>8. /\ two \in Seq(Instruction) /\ Len(two) = n + 3
        /\ \A b \in Addr(one) : two[b + 1] = one[b + 1]
        /\ two[n + 3] = Instr("Assign")
    <2>1. /\ two \in Seq(Instruction) /\ Len(two) = Len(one) + 1
          /\ \A b \in Addr(one) : two[b + 1] = one[b + 1]
          /\ two[Len(one) + 1] = Instr("Assign")
      BY <1>1, <1>7, AppendFacts
    <2> HIDE DEF two
    <2>2. (n + 2) + 1 = n + 3
      BY <1>2
    <2> QED BY <1>7, <2>1, <2>2
  <1>9. FnDeclEnd(code, j, s) = two
    BY <1>1, <1>3, <1>5, ConcatTwo DEF one
  <1> HIDE DEF two
  <1>10. /\ \A b \in 0 .. n : two[b + 1] = patched[b + 1]
         /\ two[n + 2] = ldf
    <2>1. \A b \in 0 .. n : b \in Addr(one) /\ b \in Addr(patched)
      BY <1>2, <1>6, <1>7
    <2>2. n + 1 \in Addr(one) /\ (n + 1) + 1 = n + 2
      BY <1>2, <1>7
    <2> QED BY <1>7, <1>8, <2>1, <2>2
  <1>11. n \in 0 .. n /\ n \in Addr(reset) \ {j} /\ j \in 0 .. n
    BY <1>2, <1>4
  <1>12. \A b \in Addr(code) \ {j} : two[b + 1] = code[b + 1]
    <2>1. \A b \in Addr(code) : b \in 0 .. n /\ b \in Addr(reset)
      BY <1>4, <1>6
    <2> QED BY <1>4, <1>5, <1>10, <2>1
  <1>13. two[j + 1].op = code[j + 1].op /\ two[j + 1].arg = n + 1
    BY <1>4, <1>5, <1>10, <1>11
  <1>14. two[n + 1] = Instr("Reset")
    BY <1>4, <1>5, <1>10, <1>11
  <1> QED BY <1>8, <1>9, <1>10, <1>12, <1>13, <1>14 DEF n, ldf
\* FnDeclEnd closes the function of the innermost activation.
LEMMA CloseNested ==
  ASSUME NEW code, NEW stk, Nested(code, stk), stk # <<>>,
         Last(stk).site = "fun", Last(stk).jump \in Addr(code),
         code[Last(stk).jump + 1].op \in Jumps
  PROVE  Nested(FnDeclEnd(code, Last(stk).jump, Last(stk).start), Front(stk))
  <1> DEFINE a == Last(stk)  e == a.jump  s == a.start
             code2 == FnDeclEnd(code, e, s)  stk2 == Front(stk)
             n == Len(code)  m == Len(stk) - 1
  <1>1. code \in Seq(Instruction) /\ stk \in Seq(Activation)
        /\ Nest(code, stk) /\ Levels(code, stk)
    BY DEF Nested
  <1>2. /\ stk2 \in Seq(Activation) /\ a \in Activation /\ stk = Append(stk2, a)
        /\ Len(stk2) = m /\ m \in Nat /\ Len(stk) = m + 1
    <2>1. stk2 \in Seq(Activation) /\ a \in Activation /\ stk = Append(stk2, a)
      BY <1>1 DEF Front, Last
    <2>2. Len(stk2) = m /\ m \in Nat /\ Len(stk) = m + 1
      <3> HIDE DEF stk2, a
      <3>1. Len(stk) = Len(stk2) + 1 /\ Len(stk2) \in Nat
        BY <2>1
      <3> QED BY <3>1
    <2> QED BY <2>1, <2>2
  <1>3. /\ \A k \in 1 .. m : stk2[k] = stk[k]
        /\ DOMAIN stk2 = 1 .. m /\ DOMAIN stk = 1 .. (m + 1)
        /\ stk[m + 1] = a
    <2>1. \A k \in 1 .. m : stk2[k] = stk[k]
      BY <1>1 DEF Front
    <2>2. DOMAIN stk2 = 1 .. m /\ DOMAIN stk = 1 .. (m + 1)
      BY <1>1, <1>2
    <2>3. stk[m + 1] = a
      BY <1>1, <1>2 DEF Last
    <2> QED BY <2>1, <2>2, <2>3
  <1>4. Owns(a) /\ Positions(a) = {e} /\ ~Scoped(a) /\ s \in Nat
    <2>1. Owns(a) /\ Positions(a) = {e} /\ ~Scoped(a)
      BY DEF Scoped, Positions, Owns, PatchSites, Looping
    <2>2. s \in Nat
      BY <1>2 DEF Activation
    <2> QED BY <2>1, <2>2
  <1>5. /\ Len(code2) = n + 3 /\ code2 \in Seq(Instruction) /\ n \in Nat
        /\ Addr(code) = 0 .. (n - 1) /\ Addr(code2) = 0 .. (n + 2)
        /\ \A b \in Addr(code) \ {e} : code2[b + 1] = code[b + 1]
        /\ code2[e + 1].op = code[e + 1].op
        /\ code2[e + 1].arg = n + 1
        /\ code2[n + 1].op = "Reset"
        /\ code2[n + 2].op = "Ldf" /\ code2[n + 2].arg = s
        /\ code2[n + 3].op = "Assign"
    <2>1. Instr("Reset").op = "Reset" /\ Instr("Assign").op = "Assign"
      BY DEF Instr
    <2>2. e \in Addr(code) /\ s \in Nat
      BY <1>4
    <2> HIDE DEF e, s
    <2>3. /\ Len(code2) = n + 3 /\ code2 \in Seq(Instruction)
          /\ \A b \in Addr(code) \ {e} : code2[b + 1] = code[b + 1]
          /\ code2[e + 1].op = code[e + 1].op
          /\ code2[e + 1].arg = n + 1
          /\ code2[n + 1] = Instr("Reset")
          /\ code2[n + 2] = [op |-> "Ldf", arg |-> s]
          /\ code2[n + 3] = Instr("Assign")
      BY <1>1, <2>2, FnDeclEndFacts
    <2> HIDE DEF code2
    <2>4. n \in Nat /\ Addr(code) = 0 .. (n - 1)
      BY <1>1 DEF Addr
    <2>5. Addr(code2) = 0 .. (n + 2)
      <3>1. Addr(code2) = 0 .. ((n + 3) - 1)
        BY <2>3 DEF Addr
      <3> HIDE DEF n
      <3> QED BY <2>4, <3>1
    <2> QED BY <2>1, <2>3, <2>4, <2>5
  <1>6. Own(stk) = Own(stk2) \cup {e}
    <2> HIDE DEF stk2, a
    <2> QED BY <1>2, <1>4, OwnAppend
  <1>7. Open(code, stk, m + 1)
    <2>1. m + 1 \in DOMAIN stk /\ stk[m + 1].site = "fun"
      BY <1>2, <1>3
    <2> QED BY <1>1, <2>1 DEF Nest
  <1>8. e \in Addr(code) /\ code[e + 1].op \in Jumps
    OBVIOUS
  <1>9. ASSUME NEW k \in DOMAIN stk
        PROVE  /\ Positions(stk[k]) \subseteq 0 .. n
               /\ stk[k].site = "fun" => stk[k].start \in 0 .. n
    BY Bounds
  <1>10. ASSUME NEW b \in Addr(code), code[b + 1].op = "Ldf"
         PROVE  b \in 0 .. n /\ code[b + 1].arg \in 0 .. n
    BY <1>10, Bounds
  <1>11. ASSUME NEW j \in Final(code, stk)
         PROVE  j \in 0 .. (n - 1) /\ code[j + 1].arg \in 0 .. n
    BY <1>5, Bounds DEF Final
  <1> HIDE DEF code2, stk2, a, e, s, n, m
  <1>12. s \in 0 .. n /\ ~(e >= s)
    <2>1. m + 1 \in DOMAIN stk
      BY <1>2, <1>3
    <2>2. s \in 0 .. n
      BY <1>3, <1>9, <2>1 DEF s, a
    <2>3. ~(m + 1 > m + 1)
      BY <1>2
    <2>4. m + 1 > m + 1 <=> e >= s
      BY <1>3, <1>4, <1>7, <2>1 DEF Open, s
    <2> QED BY <2>2, <2>3, <2>4
  <1>13. ASSUME NEW b \in Addr(code2)
         PROVE  \/ b \in Addr(code)
                \/ b = n /\ code2[b + 1].op = "Reset"
                \/ b = n + 1 /\ code2[b + 1].op = "Ldf" /\ code2[b + 1].arg = s
                \/ b = n + 2 /\ code2[b + 1].op = "Assign"
    <2>1. b \in 0 .. (n - 1) \/ b = n \/ b = n + 1 \/ b = n + 2
      BY <1>5
    <2>2. (n + 1) + 1 = n + 2 /\ (n + 2) + 1 = n + 3
      BY <1>5
    <2> QED BY <1>5, <2>1, <2>2
  <1>14. ASSUME NEW j \in Final(code2, stk2)
         PROVE  \/ j \in Final(code, stk) /\ code2[j + 1] = code[j + 1]
                \/ j = e /\ code2[j + 1].arg = n + 1
    <2>1. j \in Addr(code2) /\ j \notin Own(stk2) /\ code2[j + 1].op \in Jumps
      BY DEF Final
    <2>2. j \in Addr(code)
      BY <1>13, <2>1
    <2>3. CASE j = e
      BY <1>5, <2>3
    <2>4. CASE j # e
      <3>1. code2[j + 1] = code[j + 1] /\ j \notin Own(stk)
        BY <1>5, <1>6, <2>1, <2>2, <2>4
      <3> QED BY <2>1, <2>2, <3>1 DEF Final
    <2> QED BY <2>3, <2>4
  <1>15. \A b \in Addr(code) : code2[b + 1].op = code[b + 1].op
    BY <1>5
  <1>16. ASSUME NEW k \in DOMAIN stk2
         PROVE  /\ k \in DOMAIN stk /\ stk2[k] = stk[k]
                /\ k \in 1 .. m /\ k \in 1 .. (m + 1) /\ m + 1 > k
    BY <1>2, <1>3
  <1>17. ASSUME NEW b \in Addr(code2), code2[b + 1].op = "Ldf"
         PROVE  \/ /\ b \in Addr(code) /\ code2[b + 1] = code[b + 1]
                   /\ b \in 0 .. n /\ code[b + 1].arg \in 0 .. n
                   /\ Inside(code2, b) = Inside(code, b)
                \/ b = n + 1 /\ code2[b + 1].arg = s
    <2>1. CASE b \in Addr(code)
      <3>1. b # e
        BY <1>5, <1>8, <1>17
      <3>2. code2[b + 1] = code[b + 1]
        BY <1>5, <2>1, <3>1
      <3> QED BY <1>10, <1>17, <2>1, <3>2 DEF Inside
    <2> QED BY <1>13, <1>17, <2>1
  <1>18. /\ \A b \in 0 .. n : Depth(code2, b) = Depth(code, b)
         /\ \A b \in n .. (n + 3) : Depth(code2, b) = Depth(code, n)
    <2>1. Len(code) = n /\ Len(code2) = n + 3 /\ n <= n + 3
      BY <1>5 DEF n
    <2>2. Extends(code, code2)
      BY <1>15, <2>1 DEF Extends
    <2>3. Silent(code, code2)
      <3>1. ASSUME NEW b \in n .. ((n + 3) - 1)
            PROVE  code2[b + 1].op \notin {"EnterScope", "ExitScope"}
        <4>1. b \in Addr(code2) /\ b \notin Addr(code)
          BY <1>5
        <4> QED BY <1>13, <4>1
      <3> QED BY <2>1, <3>1 DEF Silent
    <2>4. \A b \in 0 .. n : Depth(code2, b) = Depth(code, b)
      BY <1>1, <1>5, <2>1, <2>2, DepthKept
    <2>5. \A b \in n .. (n + 3) : Depth(code2, b) = Depth(code, n)
      BY <1>1, <1>5, <2>1, <2>2, <2>3, DepthSilent
    <2> QED BY <2>4, <2>5
  <1>19. /\ Scopes(stk2, m + 1) = Scopes(stk, m + 2)
         /\ \A k \in 1 .. (m + 1) : Scopes(stk2, k) = Scopes(stk, k)
    BY <1>2, <1>4, ScopesAppend
  <1>20. /\ Depth(code, n) = Scopes(stk, m + 1)
         /\ Depth(code, e) = Scopes(stk, m + 1)
         /\ Depth(code, s) = Scopes(stk, m + 1)
    <2>1. Depth(code, n) = Scopes(stk, m + 2)
      <3>1. Len(stk) + 1 = m + 2
        BY <1>2
      <3> QED BY <1>1, <3>1 DEF Levels, n
    <2>2. m + 1 \in 1 .. (m + 1)
      BY <1>2
    <2>3. Scopes(stk, m + 2) = Scopes(stk, m + 1)
      BY <1>19, <2>2
    <2>4. m + 1 \in DOMAIN stk /\ stk[m + 1] = a /\ a.site = "fun"
      BY <1>3, <2>2 DEF a
    <2>5. Depth(code, e) = Scopes(stk, m + 1) /\ Depth(code, s) = Scopes(stk, m + 1)
      BY <1>1, <1>4, <2>4 DEF Levels, s
    <2> QED BY <2>1, <2>3, <2>5
  <1>21. e \in 0 .. (n - 1) /\ e \in Nat /\ e < n
    BY <1>5, <1>8
  <1>30. ASSUME NEW b \in Addr(code2), code2[b + 1].op = "Ldf"
         PROVE  Closed(code2, stk2, b)
    <2>1. CASE /\ b \in Addr(code) /\ code2[b + 1] = code[b + 1]
               /\ Inside(code2, b) = Inside(code, b)
      <3>1. Closed(code, stk, b)
        BY <1>1, <1>30, <2>1 DEF Nest
      <3>2. b > 0 /\ code2[b].op = "Reset"
        <4>1. b - 1 \in Addr(code) /\ (b - 1) + 1 = b /\ b > 0 /\ code[b].op = "Reset"
          BY <1>5, <2>1, <3>1 DEF Closed
        <4>2. code2[(b - 1) + 1].op = code[(b - 1) + 1].op
          BY <1>15, <4>1
        <4> QED BY <4>1, <4>2
      <3>3. e \notin Inside(code, b) /\ n + 1 \notin Inside(code, b)
        <4>1. m + 1 \in DOMAIN stk /\ e \in Positions(stk[m + 1])
          BY <1>2, <1>3, <1>4
        <4>2. e \notin Inside(code, b)
          BY <3>1, <4>1 DEF Closed
        <4> DEFINE t == code[b + 1].arg
        <4>3. b \in 0 .. (n - 1) /\ t \in 0 .. n
          BY <1>5, <1>10, <1>30, <2>1
        <4> HIDE DEF t
        <4>4. n + 1 \notin t .. (b - 1)
          BY <1>5, <4>3
        <4> QED BY <4>2, <4>4 DEF Inside, t
      <3>4. ASSUME NEW j \in Final(code2, stk2)
            PROVE  j \in Inside(code2, b) <=> code2[j + 1].arg \in Inside(code2, b)
        <4>1. CASE j \in Final(code, stk) /\ code2[j + 1] = code[j + 1]
          BY <2>1, <3>1, <4>1 DEF Closed
        <4>2. CASE j = e /\ code2[j + 1].arg = n + 1
          BY <2>1, <3>3, <4>2
        <4> QED BY <1>14, <4>1, <4>2
      <3>5. ASSUME NEW k \in DOMAIN stk2, NEW p \in Positions(stk2[k])
            PROVE  p \notin Inside(code2, b)
        <4>1. k \in DOMAIN stk /\ stk2[k] = stk[k]
          BY <1>16
        <4> QED BY <2>1, <3>1, <3>5, <4>1 DEF Closed
      <3> QED BY <3>2, <3>4, <3>5 DEF Closed
    <2>2. CASE b = n + 1 /\ code2[b + 1].arg = s
      <3>1. Inside(code2, b) = s .. n
        <4>1. (n + 1) - 1 = n
          BY <1>5
        <4> QED BY <2>2, <4>1 DEF Inside
      <3>2. b > 0 /\ code2[b].op = "Reset"
        BY <1>5, <2>2
      <3>3. ASSUME NEW j \in Final(code2, stk2)
            PROVE  j \in s .. n <=> code2[j + 1].arg \in s .. n
        <4> DEFINE t == code2[j + 1].arg
        <4>1. CASE j \in Final(code, stk) /\ code2[j + 1] = code[j + 1]
          <5>1. j \in 0 .. (n - 1) /\ t \in 0 .. n
            BY <1>11, <4>1
          <5>2. j >= s <=> t >= s
            BY <1>3, <1>7, <4>1 DEF Open, s
          <5> HIDE DEF t
          <5>3. j \in s .. n <=> t \in s .. n
            BY <1>5, <1>12, <5>1, <5>2
          <5> QED BY <5>3 DEF t
        <4>2. CASE j = e /\ t = n + 1
          <5> HIDE DEF t
          <5>1. j \notin s .. n /\ t \notin s .. n
            BY <1>5, <1>12, <1>21, <4>2
          <5> QED BY <5>1 DEF t
        <4> QED BY <1>14, <4>1, <4>2
      <3>4. ASSUME NEW k \in DOMAIN stk2, NEW p \in Positions(stk2[k])
            PROVE  p \notin s .. n
        <4>1. k \in DOMAIN stk /\ stk2[k] = stk[k] /\ m + 1 > k /\ k \in 1 .. m
          BY <1>16
        <4>2. k > m + 1 <=> p >= s
          BY <1>3, <1>7, <3>4, <4>1 DEF Open, s
        <4>3. ~(k > m + 1)
          BY <1>2, <4>1
        <4>4. ~(p >= s)
          BY <4>2, <4>3
        <4> QED BY <4>4, <1>12, <1>5
      <3> QED BY <3>1, <3>2, <3>3, <3>4 DEF Closed
    <2> QED BY <1>17, <1>30, <2>1, <2>2
  <1>31. ASSUME NEW k \in DOMAIN stk2, stk2[k].site = "fun"
         PROVE  Open(code2, stk2, k)
    <2> DEFINE r == stk[k].start
    <2>1. /\ k \in DOMAIN stk /\ stk2[k] = stk[k] /\ m + 1 > k
      BY <1>16
    <2>2. Open(code, stk, k) /\ r \in 0 .. n
      BY <1>1, <1>9, <1>31, <2>1 DEF Nest
    <2>3. e >= r
      <3>1. m + 1 \in DOMAIN stk /\ e \in Positions(stk[m + 1])
        BY <1>2, <1>3, <1>4
      <3> QED BY <2>1, <2>2, <3>1 DEF Open
    <2>4. r <= Len(code2) /\ n + 1 >= r
      <3> HIDE DEF r
      <3> QED BY <1>5, <2>2
    <2>5. ASSUME NEW j \in Final(code2, stk2)
          PROVE  j >= r <=> code2[j + 1].arg >= r
      <3>1. CASE j \in Final(code, stk) /\ code2[j + 1] = code[j + 1]
        BY <2>2, <3>1 DEF Open
      <3>2. CASE j = e /\ code2[j + 1].arg = n + 1
        BY <2>3, <2>4, <3>2
      <3> QED BY <1>14, <3>1, <3>2
    <2>6. ASSUME NEW l \in DOMAIN stk2, NEW p \in Positions(stk2[l])
          PROVE  l > k <=> p >= r
      <3>1. l \in DOMAIN stk /\ stk2[l] = stk[l]
        BY <1>16
      <3> QED BY <2>2, <2>6, <3>1 DEF Open
    <2> QED BY <2>1, <2>4, <2>5, <2>6 DEF Open
  <1>32. Nest(code2, stk2)
    <2>1. ASSUME NEW j \in Final(code2, stk2) PROVE code2[j + 1].arg \in 0 .. Len(code2)
      <3> DEFINE t == code2[j + 1].arg
      <3>1. t \in 0 .. n \/ t = n + 1
        BY <1>11, <1>14
      <3> HIDE DEF t
      <3>2. t \in 0 .. (n + 3)
        BY <1>5, <3>1
      <3> QED BY <1>5, <3>2 DEF t
    <2>2. ASSUME NEW k \in DOMAIN stk2 PROVE Positions(stk2[k]) \subseteq 0 .. Len(code2)
      <3>1. Positions(stk2[k]) \subseteq 0 .. n
        BY <1>9, <1>16
      <3>2. 0 .. n \subseteq 0 .. (n + 3)
        BY <1>5
      <3> QED BY <1>5, <3>1, <3>2
    <2> QED BY <1>30, <1>31, <2>1, <2>2 DEF Nest
  <1>33. /\ n + 1 \in n .. (n + 3) /\ n + 3 \in n .. (n + 3)
         /\ \A b \in 0 .. (n + 3) : b \in 0 .. n \/ b \in n .. (n + 3)
         /\ n \in 0 .. n /\ e \in 0 .. n
    BY <1>5, <1>21
  <1>34. ASSUME NEW b \in 0 .. (n + 3) PROVE Depth(code2, b) >= 0
    <2>1. \A c \in 0 .. n : Depth(code, c) >= 0
      BY <1>1 DEF Levels, n
    <2>2. b \in 0 .. n \/ b \in n .. (n + 3)
      BY <1>33
    <2> QED BY <1>18, <1>33, <2>1, <2>2
  <1>35. ASSUME NEW j \in Final(code2, stk2)
         PROVE  Depth(code2, code2[j + 1].arg) = Depth(code2, j)
    <2>1. CASE j \in Final(code, stk) /\ code2[j + 1] = code[j + 1]
      <3>1. j \in 0 .. n /\ code[j + 1].arg \in 0 .. n
        BY <2>1, Bounds DEF n
      <3>2. Depth(code, code[j + 1].arg) = Depth(code, j)
        BY <1>1, <2>1 DEF Levels
      <3> QED BY <1>18, <2>1, <3>1, <3>2
    <2>2. CASE j = e /\ code2[j + 1].arg = n + 1
      <3>1. Depth(code2, e) = Depth(code, e)
        BY <1>18, <1>33
      <3>2. Depth(code2, n + 1) = Depth(code, n)
        BY <1>18, <1>33
      <3> QED BY <1>20, <2>2, <3>1, <3>2
    <2> QED BY <1>14, <2>1, <2>2
  <1>36. ASSUME NEW b \in Addr(code2), code2[b + 1].op = "Ldf"
         PROVE  /\ code2[b + 1].arg <= b
                /\ Depth(code2, code2[b + 1].arg) = Depth(code2, b)
    <2>1. CASE /\ b \in Addr(code) /\ code2[b + 1] = code[b + 1]
               /\ b \in 0 .. n /\ code[b + 1].arg \in 0 .. n
      <3>1. code[b + 1].arg <= b /\ Depth(code, code[b + 1].arg) = Depth(code, b)
        BY <1>1, <1>36, <2>1 DEF Levels
      <3> QED BY <1>18, <2>1, <3>1
    <2>2. CASE b = n + 1 /\ code2[b + 1].arg = s
      <3>1. s <= n + 1
        BY <1>5, <1>12
      <3> QED BY <1>12, <1>18, <1>20, <1>33, <2>2, <3>1
    <2> QED BY <1>17, <1>36, <2>1, <2>2
  <1>37. ASSUME NEW k \in DOMAIN stk2
         PROVE  /\ \A p \in Positions(stk2[k]) : Depth(code2, p) = Scopes(stk2, k)
                /\ stk2[k].site = "fun" => Depth(code2, stk2[k].start) = Scopes(stk2, k)
    <2>1. k \in DOMAIN stk /\ stk2[k] = stk[k] /\ k \in 1 .. (m + 1)
      BY <1>16
    <2>2. /\ \A p \in Positions(stk[k]) : Depth(code, p) = Scopes(stk, k)
          /\ stk[k].site = "fun" => Depth(code, stk[k].start) = Scopes(stk, k)
      BY <1>1, <2>1 DEF Levels
    <2>3. /\ Positions(stk[k]) \subseteq 0 .. n
          /\ stk[k].site = "fun" => stk[k].start \in 0 .. n
      BY <1>9, <2>1
    <2>4. Scopes(stk2, k) = Scopes(stk, k)
      BY <1>19, <2>1
    <2> QED BY <1>18, <2>1, <2>2, <2>3, <2>4
  <1>38. Depth(code2, Len(code2)) = Scopes(stk2, Len(stk2) + 1)
    <2>1. m + 1 \in 1 .. (m + 1)
      BY <1>2
    <2> QED BY <1>2, <1>5, <1>18, <1>19, <1>20, <1>33, <2>1
  <1>39. Levels(code2, stk2)
    BY <1>5, <1>34, <1>35, <1>36, <1>37, <1>38 DEF Levels
  <1> QED BY <1>2, <1>5, <1>32, <1>39 DEF Nested, code2, stk2, a, e, s

-----------------------------------------------------------------------------
(* The steps that neither open nor close a function or a scope, on the code *)
(* and the stack alone                                                      *)

\* An activation with nothing to connect, and an instruction that only
\* computes.
Free(a) == Plain(a) /\ ~Scoped(a)

Calm(i) == i \in Instruction /\ i.op \notin Jumps \cup {"Ldf", "EnterScope", "ExitScope"}

LEMMA FreeFacts ==
  ASSUME NEW a, Free(a)
  PROVE  /\ a \in Activation /\ ~Scoped(a) /\ ~Owns(a) /\ ~Looping(a)
         /\ a.site # "fun" /\ Positions(a) = {}
  BY DEF Free, Plain, Owns, PatchSites, Positions, Looping

LEMMA NestedStay ==
  ASSUME NEW code, NEW code2, NEW stk, Nested(code, stk),
         NEW now, now = Now(code, code2, stk, Len(stk)),
         Builds(code, code2, {}, Own(stk), now)
  PROVE  Nested(code2, stk)
  <1>1. stk \in Seq(Activation)
    BY DEF Nested
  <1>2. Shifts(stk, stk, Len(stk), {}, now) /\ Unscoped(stk, stk, Len(stk))
    BY <1>1, ShiftStay
  <1>3. Grows(code, code2, {}, Own(stk), now) /\ Silent(code, code2)
    BY DEF Builds
  <1> QED BY <1>2, <1>3, NestedKept

LEMMA NestedPush ==
  ASSUME NEW code, NEW code2, NEW stk, Nested(code, stk),
         NEW now, now = Now(code, code2, stk, Len(stk)),
         NEW a \in Activation, a.site # "fun", ~Scoped(a), Positions(a) \subseteq now,
         Builds(code, code2, {}, Own(Append(stk, a)), now)
  PROVE  Nested(code2, Append(stk, a))
  <1>1. stk \in Seq(Activation)
    BY DEF Nested
  <1>2. /\ Shifts(stk, Append(stk, a), Len(stk), {}, now)
        /\ Unscoped(stk, Append(stk, a), Len(stk))
    BY <1>1, ShiftPush
  <1>3. Grows(code, code2, {}, Own(Append(stk, a)), now) /\ Silent(code, code2)
    BY DEF Builds
  <1> QED BY <1>2, <1>3, NestedKept

LEMMA NestedPop ==
  ASSUME NEW code, NEW code2, NEW stk, Nested(code, stk), stk # <<>>,
         Last(stk).site # "fun", ~Scoped(Last(stk)),
         NEW now, now = Now(code, code2, stk, Len(stk) - 1),
         Builds(code, code2, Mine(stk), Own(Front(stk)), now)
  PROVE  Nested(code2, Front(stk))
  <1>1. stk \in Seq(Activation)
    BY DEF Nested
  <1>2. /\ Shifts(stk, Front(stk), Len(stk) - 1, Mine(stk), now)
        /\ Unscoped(stk, Front(stk), Len(stk) - 1)
    BY <1>1, ShiftPop
  <1>3. Grows(code, code2, Mine(stk), Own(Front(stk)), now) /\ Silent(code, code2)
    BY DEF Builds
  <1> QED BY <1>2, <1>3, NestedKept

LEMMA NestedSwap ==
  ASSUME NEW code, NEW code2, NEW stk, Nested(code, stk), stk # <<>>,
         Last(stk).site # "fun", ~Scoped(Last(stk)),
         NEW now, now = Now(code, code2, stk, Len(stk) - 1),
         NEW a \in Activation, a.site # "fun", ~Scoped(a), Positions(a) \subseteq now,
         Builds(code, code2, Mine(stk), Own(Append(Front(stk), a)), now)
  PROVE  Nested(code2, Append(Front(stk), a))
  <1> DEFINE stk2 == Append(Front(stk), a)
  <1>1. stk \in Seq(Activation)
    BY DEF Nested
  <1>2. /\ Shifts(stk, stk2, Len(stk) - 1, Mine(stk), now)
        /\ Unscoped(stk, stk2, Len(stk) - 1)
    BY <1>1, ShiftPop
  <1>3. Grows(code, code2, Mine(stk), Own(stk2), now) /\ Silent(code, code2)
    BY DEF Builds
  <1> HIDE DEF stk2
  <1>4. Nested(code2, stk2)
    BY <1>2, <1>3, NestedKept
  <1> QED BY <1>4 DEF stk2

\* The innermost activation's addresses, and those at the end of the code.
LEMMA NowLast ==
  ASSUME NEW code, NEW code2, NEW stk, Nested(code, stk), stk # <<>>
  PROVE  Now(code, code2, stk, Len(stk) - 1)
           = Len(code) .. Len(code2) \cup Positions(Last(stk))
  BY DroppedLast DEF Now, Nested

LEMMA FrontType ==
  ASSUME NEW stk \in Seq(Activation), stk # <<>>
  PROVE  Front(stk) \in Seq(Activation) /\ Last(stk) \in Activation
  BY DEF Front, Last

\* A jump that was added for nobody to patch has been patched.
LEMMA BuildsDrop ==
  ASSUME NEW code, NEW code2, NEW patched, NEW own2, NEW now, NEW j,
         Builds(code, code2, patched, own2 \cup {j}, now), code2[j + 1].arg \in now
  PROVE  Builds(code, code2, patched, own2, now)
  BY DEF Builds, Grows

\* Instructions that only compute.
LEMMA CalmBuilds ==
  ASSUME NEW code, NEW code2, NEW patched, NEW own2, NEW now,
         Builds(code, code2, patched, own2, now), NEW i, Calm(i)
  PROVE  Builds(code, Append(code2, i), patched, own2, now)
  BY BuildsAppend DEF Calm

\* A Jof, and perhaps a Pop, is added for the activation that continues the
\* innermost one.
LEMMA NestedJof ==
  ASSUME NEW code, NEW stk, Nested(code, stk), stk # <<>>,
         ~Owns(Last(stk)), ~Scoped(Last(stk)),
         NEW a \in Activation, Owns(a), a.site # "fun", a.jump = Len(code),
         Looping(a) => Looping(Last(stk)) /\ a.start = Last(stk).start,
         NEW i \in Instruction, i.op \in Jumps, NEW q, Calm(q)
  PROVE  /\ Nested(Append(code, i), Append(Front(stk), a))
         /\ Nested(Append(Append(code, i), q), Append(Front(stk), a))
  <1> DEFINE stk2 == Append(Front(stk), a)
             one == Append(code, i)  two == Append(one, q)
             now(code2) == Now(code, code2, stk, Len(stk) - 1)
  <1>1. code \in Seq(Instruction) /\ stk \in Seq(Activation)
    BY DEF Nested
  <1>2. Len(code) \in Own(stk2)
    BY <1>1, FrontType, OwnAppend
  <1>3. /\ Last(stk).site # "fun" /\ Mine(stk) = {} /\ ~Scoped(a)
    BY DEF Owns, PatchSites, Mine, Scoped
  <1>4. ASSUME NEW code2, Len(code) \in Len(code) .. Len(code2)
        PROVE  Positions(a) \subseteq now(code2)
    <2>1. now(code2) = Len(code) .. Len(code2) \cup Positions(Last(stk))
      BY NowLast
    <2>2. ASSUME NEW p \in Positions(a) PROVE p = Len(code) \/ p \in Positions(Last(stk))
      BY <2>2 DEF Positions
    <2> QED BY <1>4, <2>1, <2>2
  <1>5. ASSUME NEW set
        PROVE  Builds(code, one, {}, Own(stk2), set) /\ Builds(code, two, {}, Own(stk2), set)
    <2> HIDE DEF stk2
    <2>1. i.op \notin {"Ldf", "EnterScope", "ExitScope"}
      OBVIOUS
    <2>2. Builds(code, code, {}, Own(stk2), set)
      BY <1>1, BuildsNothing
    <2>3. Builds(code, one, {}, Own(stk2), set)
      BY <1>2, <2>1, <2>2, BuildsAppend
    <2> HIDE DEF one
    <2> QED BY <2>3, CalmBuilds
  <1>6. Len(code) \in Len(code) .. Len(one) /\ Len(code) \in Len(code) .. Len(two)
    <2>1. q \in Instruction
      BY DEF Calm
    <2> QED BY <1>1, <2>1
  <1>7. /\ Positions(a) \subseteq now(one) /\ Builds(code, one, Mine(stk), Own(stk2), now(one))
        /\ Positions(a) \subseteq now(two) /\ Builds(code, two, Mine(stk), Own(stk2), now(two))
    <2> HIDE DEF one, two, now, stk2
    <2> QED BY <1>3, <1>4, <1>5, <1>6
  <1> HIDE DEF one, two
  <1>8. Nested(one, stk2)
    BY <1>3, <1>7, NestedSwap
  <1>9. Nested(two, stk2)
    BY <1>3, <1>7, NestedSwap
  <1> QED BY <1>8, <1>9 DEF one, two

\* The innermost activation owns the jump that the step patches.
Patching(code, stk) ==
  /\ Nested(code, stk)
  /\ stk # <<>>
  /\ Owns(Last(stk))
  /\ Last(stk).site # "fun"
  /\ Last(stk).jump \in Addr(code)
  /\ code[Last(stk).jump + 1].op \in Jumps

LEMMA PatchingFacts ==
  ASSUME NEW code, NEW stk, Patching(code, stk)
  PROVE  /\ code \in Seq(Instruction) /\ Len(code) \in Nat
         /\ stk \in Seq(Activation) /\ Front(stk) \in Seq(Activation)
         /\ Last(stk) \in Activation /\ ~Scoped(Last(stk))
         /\ Mine(stk) = {Last(stk).jump}
         /\ Last(stk).jump \in Nat /\ Last(stk).jump < Len(code)
  <1>1. /\ code \in Seq(Instruction) /\ Len(code) \in Nat
        /\ stk \in Seq(Activation)
    BY DEF Patching, Nested
  <1>2. Front(stk) \in Seq(Activation) /\ Last(stk) \in Activation
    BY <1>1, FrontType DEF Patching
  <1>3. ~Scoped(Last(stk)) /\ Mine(stk) = {Last(stk).jump}
    BY DEF Patching, Owns, PatchSites, Scoped, Mine
  <1>4. Last(stk).jump \in Nat /\ Last(stk).jump < Len(code)
    <2> DEFINE n == Len(code)  j == Last(stk).jump
    <2>1. j \in 0 .. (n - 1) /\ n \in Nat
      BY <1>1 DEF Patching, Addr
    <2> HIDE DEF n, j
    <2>2. j \in Nat /\ j < n
      BY <2>1
    <2> QED BY <2>2 DEF n, j
  <1> QED BY <1>1, <1>2, <1>3, <1>4

\* The second operand of a logical operator and the alternative of a
\* conditional end: the jump over them is patched.
LEMMA NestedPatch ==
  ASSUME NEW code, NEW stk, Patching(code, stk)
  PROVE  Nested(patchJump(code, Last(stk).jump, Len(code)), Front(stk))
  <1> DEFINE j == Last(stk).jump  n == Len(code)
             code2 == patchJump(code, j, n)
             now == Now(code, code2, stk, Len(stk) - 1)
  <1>1. /\ code \in Seq(Instruction) /\ n \in Nat
        /\ Last(stk).site # "fun" /\ ~Scoped(Last(stk)) /\ Mine(stk) = {j}
        /\ j \in Addr(code) /\ code[j + 1].op \in Jumps
        /\ Nested(code, stk) /\ stk # <<>>
    BY PatchingFacts DEF Patching
  <1>2. Len(code2) = n
    BY <1>1, PatchFacts
  <1>3. n \in now
    <2>1. n \in n .. n
      BY <1>1
    <2> HIDE DEF code2, n
    <2> QED BY <1>2, <2>1 DEF Now, n
  <1>4. Builds(code, code, {}, Own(Front(stk)), now)
    <2> HIDE DEF now
    <2> QED BY <1>1, BuildsNothing
  <1>5. Builds(code, code2, {} \cup ({j} \cap Addr(code)), Own(Front(stk)), now)
    <2> HIDE DEF now, j, n
    <2> QED BY <1>1, <1>3, <1>4, BuildsPatch
  <1>6. {} \cup ({j} \cap Addr(code)) = Mine(stk)
    BY <1>1
  <1> HIDE DEF j, code2
  <1> QED BY <1>1, <1>5, <1>6, NestedPop DEF j, code2

\* The end of a conditional's consequence.
LEMMA NestedCons ==
  ASSUME NEW code, NEW stk, Patching(code, stk),
         NEW a \in Activation, Owns(a), ~Looping(a), a.site # "fun", a.jump = Len(code)
  PROVE  LET n == Len(code)
             code2 == patchJump(Append(code, Instr("Goto")), Last(stk).jump, n + 1)
         IN  /\ Nested(code2, Append(Front(stk), a))
             /\ Nested(patchJump(Append(code2, Instr("Ldc")), n, n + 2), Front(stk))
  <1> DEFINE j == Last(stk).jump  n == Len(code)
             one == Append(code, Instr("Goto"))
             code2 == patchJump(one, j, n + 1)
             longer == Append(code2, Instr("Ldc"))
             code3 == patchJump(longer, n, n + 2)
             stk2 == Append(Front(stk), a)
             now2 == Now(code, code2, stk, Len(stk) - 1)
             now3 == Now(code, code3, stk, Len(stk) - 1)
  <1>1. /\ code \in Seq(Instruction) /\ n \in Nat
        /\ Last(stk).site # "fun" /\ ~Scoped(Last(stk)) /\ Mine(stk) = {j}
        /\ j \in Addr(code) /\ code[j + 1].op \in Jumps
        /\ Nested(code, stk) /\ stk # <<>> /\ Front(stk) \in Seq(Activation)
        /\ j \in Nat /\ j < n
    BY PatchingFacts DEF Patching
  <1>0. n \in Nat /\ j \in Nat /\ j < n
    BY <1>1
  <1>2. /\ Instr("Goto") \in Instruction /\ Instr("Goto").op = "Goto"
        /\ Calm(Instr("Ldc"))
    BY InstrType DEF Opcodes, Calm
  <1>3. Owns(a) /\ Positions(a) = {n} /\ ~Scoped(a) /\ a.site # "fun" /\ n \in Own(stk2)
    <2>1. Owns(a) /\ Positions(a) = {n} /\ ~Scoped(a) /\ a.site # "fun"
      BY DEF Owns, PatchSites, Positions, Scoped
    <2> HIDE DEF n
    <2> QED BY <1>1, <2>1, OwnAppend DEF n
  <1>4. /\ one \in Seq(Instruction) /\ Len(one) = n + 1
        /\ one[j + 1] = code[j + 1] /\ one[n + 1] = Instr("Goto")
        /\ Addr(one) = Addr(code) \cup {n} /\ n \notin Addr(code)
    BY <1>1, <1>2, AppendFacts
  <1> HIDE DEF one, j, n
  <1>5. /\ code2 \in Seq(Instruction) /\ Len(code2) = n + 1
        /\ code2[n + 1] = one[n + 1]
    <2>1. j \in Addr(one) /\ n \in Addr(one) \ {j}
      BY <1>1, <1>4
    <2>2. n + 1 \in Nat
      BY <1>0
    <2>3. code2 \in Seq(Instruction) /\ Len(code2) = Len(one)
          /\ \A b \in Addr(one) \ {j} : code2[b + 1] = one[b + 1]
      BY <1>4, <2>1, <2>2, PatchFacts
    <2> HIDE DEF code2
    <2> QED BY <1>4, <2>1, <2>3
  <1> HIDE DEF code2
  <1>6. /\ longer \in Seq(Instruction) /\ Len(longer) = n + 2
        /\ n \in Addr(longer) /\ longer[n + 1] = Instr("Goto")
    <2>1. /\ longer \in Seq(Instruction) /\ Len(longer) = Len(code2) + 1
          /\ \A b \in Addr(code2) : longer[b + 1] = code2[b + 1]
          /\ Addr(longer) = Addr(code2) \cup {Len(code2)}
      BY <1>2, <1>5, AppendFacts DEF Calm
    <2>2. (n + 1) + 1 = n + 2 /\ n \in Addr(code2)
      <3>1. Addr(code2) = 0 .. ((n + 1) - 1)
        BY <1>5 DEF Addr
      <3> QED BY <1>0, <3>1
    <2> HIDE DEF longer
    <2> QED BY <1>4, <1>5, <2>1, <2>2
  <1> HIDE DEF longer
  <1>7. /\ code3 \in Seq(Instruction) /\ Len(code3) = n + 2 /\ code3[n + 1].arg = n + 2
    <2>1. n + 2 \in Nat
      BY <1>0
    <2> QED BY <1>6, <2>1, PatchFacts
  <1> HIDE DEF code3
  <1>8. /\ n + 1 \in now2 /\ Positions(a) \subseteq now2
        /\ n + 1 \in now3 /\ n + 2 \in now3
    <2>1. n \in n .. (n + 1) /\ n + 1 \in n .. (n + 1)
          /\ n + 1 \in n .. (n + 2) /\ n + 2 \in n .. (n + 2)
      BY <1>0
    <2>2. n .. (n + 1) \subseteq now2 /\ n .. (n + 2) \subseteq now3
      BY <1>5, <1>7 DEF Now, n
    <2> HIDE DEF now2, now3
    <2> QED BY <1>3, <2>1, <2>2
  <1>9. ASSUME NEW own2, n \in own2, NEW set, n + 1 \in set
        PROVE  Builds(code, code2, {j}, own2, set) /\ Builds(code, longer, {j}, own2, set)
    <2>1. Builds(code, code, {}, own2, set)
      BY <1>1, BuildsNothing
    <2>2. Builds(code, one, {}, own2, set)
      <3>1. Instr("Goto").op \notin {"Ldf", "EnterScope", "ExitScope"} /\ Len(code) \in own2
        BY <1>2, <1>9 DEF n
      <3> QED BY <1>2, <2>1, <3>1, BuildsAppend DEF one
    <2>3. Builds(code, code2, {} \cup ({j} \cap Addr(code)), own2, set)
      <3>1. j \in Addr(one) /\ one[j + 1].op \in Jumps
        BY <1>1, <1>4
      <3>2. n + 1 \in Nat
        BY <1>0
      <3> QED BY <1>9, <2>2, <3>1, <3>2, BuildsPatch DEF code2
    <2>4. {} \cup ({j} \cap Addr(code)) = {j}
      BY <1>1
    <2>5. Builds(code, code2, {j}, own2, set)
      BY <2>3, <2>4
    <2>6. Builds(code, longer, {j}, own2, set)
      BY <1>2, <2>5, CalmBuilds DEF longer
    <2> QED BY <2>5, <2>6
  <1>10. Nested(code2, stk2)
    <2>1. Builds(code, code2, Mine(stk), Own(stk2), now2)
      <3> HIDE DEF now2, now3, stk2
      <3> QED BY <1>1, <1>3, <1>8, <1>9
    <2> QED BY <1>1, <1>3, <1>8, <2>1, NestedSwap
  <1>11. Nested(code3, Front(stk))
    <2> DEFINE own == Own(Front(stk))  set == now3
    <2> HIDE DEF own, now2, now3, set
    <2>1. Builds(code, longer, {j}, own \cup {n}, set)
      BY <1>8, <1>9 DEF set
    <2>2. Builds(code, code3, {j} \cup ({n} \cap Addr(code)), own \cup {n}, set)
      <3>1. longer[n + 1].op \in Jumps /\ n + 2 \in set
        BY <1>2, <1>6, <1>8 DEF set
      <3>2. n + 2 \in Nat
        BY <1>0
      <3> QED BY <1>6, <2>1, <3>1, <3>2, BuildsPatch DEF code3
    <2>3. {j} \cup ({n} \cap Addr(code)) = Mine(stk)
      BY <1>1, <1>4
    <2>4. Builds(code, code3, Mine(stk), own, set)
      <3>1. code3[n + 1].arg \in set
        BY <1>7, <1>8 DEF set
      <3>2. Builds(code, code3, Mine(stk), own \cup {n}, set)
        BY <2>2, <2>3
      <3> QED BY <3>1, <3>2, BuildsDrop
    <2> QED BY <1>1, <2>4, NestedPop DEF own, set, now3
  <1> QED BY <1>10, <1>11 DEF code3, longer, code2, one, j, n

\* The first operand of a logical or ends: the Jof past the Goto is patched
\* at once, the Goto is left to the activation that continues.
LEMMA NestedOr ==
  ASSUME NEW code, NEW stk, Nested(code, stk), stk # <<>>,
         ~Owns(Last(stk)), ~Scoped(Last(stk)),
         NEW a \in Activation, Owns(a), ~Looping(a), a.site # "fun",
         a.jump = Len(code) + 1
  PROVE  LET n == Len(code)
             two == Append(Append(code, Instr("Jof")), Instr("Goto"))
         IN  Nested(Append(patchJump(two, n, n + 2), Instr("Pop")), Append(Front(stk), a))
  <1> DEFINE n == Len(code)
             one == Append(code, Instr("Jof"))
             two == Append(one, Instr("Goto"))
             patched == patchJump(two, n, n + 2)
             code2 == Append(patched, Instr("Pop"))
             stk2 == Append(Front(stk), a)
             own == Own(stk2)
             now == Now(code, code2, stk, Len(stk) - 1)
  <1>1. code \in Seq(Instruction) /\ stk \in Seq(Activation) /\ n \in Nat
    BY DEF Nested
  <1>2. /\ Last(stk).site # "fun" /\ Mine(stk) = {}
        /\ ~Scoped(a) /\ Positions(a) = {n + 1}
    BY DEF Owns, PatchSites, Mine, Scoped, Positions
  <1>3. n + 1 \in own
    <2> HIDE DEF n
    <2> QED BY <1>1, FrontType, OwnAppend DEF n
  <1>4. /\ Instr("Jof") \in Instruction /\ Instr("Jof").op = "Jof"
        /\ Instr("Goto") \in Instruction /\ Instr("Goto").op = "Goto"
        /\ Calm(Instr("Pop"))
    BY InstrType DEF Opcodes, Calm
  <1>5. /\ one \in Seq(Instruction) /\ Len(one) = n + 1
        /\ one[n + 1] = Instr("Jof") /\ Addr(one) = Addr(code) \cup {n}
        /\ n \notin Addr(code)
    BY <1>1, <1>4, AppendFacts
  <1> HIDE DEF one, n, own
  <1>6. /\ two \in Seq(Instruction) /\ Len(two) = n + 2
        /\ n \in Addr(two) /\ two[n + 1] = Instr("Jof")
    <2>1. /\ two \in Seq(Instruction) /\ Len(two) = Len(one) + 1
          /\ \A b \in Addr(one) : two[b + 1] = one[b + 1]
          /\ Addr(two) = Addr(one) \cup {Len(one)}
      BY <1>4, <1>5, AppendFacts
    <2>2. (n + 1) + 1 = n + 2
      BY <1>1
    <2> HIDE DEF two
    <2> QED BY <1>5, <2>1, <2>2
  <1> HIDE DEF two
  <1>7. n + 2 \in Nat
    BY <1>1
  <1>8. /\ patched \in Seq(Instruction) /\ Len(patched) = n + 2
        /\ patched[n + 1].arg = n + 2
    BY <1>6, <1>7, PatchFacts
  <1> HIDE DEF patched
  <1>9. code2 \in Seq(Instruction) /\ Len(code2) = n + 3
    <2>1. code2 \in Seq(Instruction) /\ Len(code2) = Len(patched) + 1
      BY <1>4, <1>8, AppendFacts DEF Calm
    <2>2. (n + 2) + 1 = n + 3
      BY <1>1
    <2> HIDE DEF code2
    <2> QED BY <1>8, <2>1, <2>2
  <1>10. n + 1 \in now /\ n + 2 \in now
    <2>1. n + 1 \in n .. (n + 3) /\ n + 2 \in n .. (n + 3)
      BY <1>1
    <2> HIDE DEF code2
    <2>2. n .. (n + 3) \subseteq now
      BY <1>9 DEF Now, n
    <2> HIDE DEF now
    <2> QED BY <2>1, <2>2
  <1> HIDE DEF now
  <1>11. Builds(code, two, {}, own \cup {n}, now)
    <2>1. Builds(code, code, {}, own \cup {n}, now)
      BY <1>1, BuildsNothing
    <2>2. Builds(code, one, {}, own \cup {n}, now)
      <3>1. Len(code) \in own \cup {n}
        BY DEF n
      <3>2. Instr("Jof").op \notin {"Ldf", "EnterScope", "ExitScope"}
        BY <1>4
      <3> QED BY <1>4, <2>1, <3>1, <3>2, BuildsAppend DEF one
    <2>3. Len(one) \in own \cup {n}
      BY <1>3, <1>5
    <2>4. Instr("Goto").op \notin {"Ldf", "EnterScope", "ExitScope"}
      BY <1>4
    <2> QED BY <1>4, <2>2, <2>3, <2>4, BuildsAppend DEF two
  <1>12. Builds(code, patched, {}, own, now)
    <2>1. two[n + 1].op \in Jumps
      BY <1>4, <1>6
    <2>2. Builds(code, patched, {} \cup ({n} \cap Addr(code)), own \cup {n}, now)
      BY <1>6, <1>7, <1>10, <1>11, <2>1, BuildsPatch DEF patched
    <2>3. {} \cup ({n} \cap Addr(code)) = {}
      BY <1>5
    <2>4. Builds(code, patched, {}, own \cup {n}, now)
      BY <2>2, <2>3
    <2>5. patched[n + 1].arg \in now
      BY <1>8, <1>10
    <2> QED BY <2>4, <2>5, BuildsDrop
  <1>13. Builds(code, code2, Mine(stk), own, now)
    BY <1>2, <1>4, <1>12, CalmBuilds
  <1>14. Positions(a) \subseteq now
    BY <1>2, <1>10
  <1>15. Builds(code, code2, Mine(stk), Own(stk2), now)
    BY <1>13 DEF own
  <1>16. Nested(code2, stk2)
    <2>1. now = Now(code, code2, stk, Len(stk) - 1)
      BY DEF now
    <2> HIDE DEF code2
    <2> QED BY <1>2, <1>14, <1>15, <2>1, NestedSwap
  <1> QED BY <1>16 DEF patched, two, one, n

\* The body of a loop ends: the jump back goes to the start, and the Jof that
\* leaves the loop is patched.
LEMMA NestedLoop ==
  ASSUME NEW code, NEW stk, Patching(code, stk), Looping(Last(stk))
  PROVE  LET looped == code \o <<Instr("Pop"), [op |-> "Goto", arg |-> Last(stk).start]>>
         IN  Nested(Append(patchJump(looped, Last(stk).jump, Len(looped)), Instr("Ldc")),
                    Front(stk))
  <1> DEFINE n == Len(code)  j == Last(stk).jump  s == Last(stk).start
             goto == [op |-> "Goto", arg |-> s]
             popped == Append(code, Instr("Pop"))
             looped == Append(popped, goto)
             patched == patchJump(looped, j, n + 2)
             code2 == Append(patched, Instr("Ldc"))
             own == Own(Front(stk))
             now == Now(code, code2, stk, Len(stk) - 1)
  <1>1. /\ code \in Seq(Instruction)
        /\ Last(stk).site # "fun" /\ ~Scoped(Last(stk)) /\ Mine(stk) = {j}
        /\ j \in Addr(code) /\ code[j + 1].op \in Jumps
        /\ Nested(code, stk) /\ stk # <<>>
    BY PatchingFacts DEF Patching
  <1>2. n \in Nat /\ j \in Nat /\ j < n
    BY PatchingFacts
  <1>3. s \in Nat
    BY PatchingFacts DEF Activation
  <1>4. s \in Positions(Last(stk))
    BY DEF Positions
  <1>5. /\ Calm(Instr("Pop")) /\ Calm(Instr("Ldc"))
        /\ goto \in Instruction /\ goto.op = "Goto" /\ goto.arg = s
    <2>1. Calm(Instr("Pop")) /\ Calm(Instr("Ldc"))
      BY InstrType DEF Opcodes, Calm
    <2> HIDE DEF s
    <2>2. goto \in Instruction /\ goto.op = "Goto" /\ goto.arg = s
      BY <1>3 DEF Instruction, Opcodes
    <2> QED BY <2>1, <2>2
  <1>6. code \o <<Instr("Pop"), goto>> = looped
    BY <1>1, <1>5, ConcatTwo DEF Calm
  <1> HIDE DEF goto, s
  <1>7. /\ popped \in Seq(Instruction) /\ Len(popped) = n + 1
        /\ popped[j + 1] = code[j + 1] /\ j \in Addr(popped)
    <2>1. Instr("Pop") \in Instruction
      BY <1>5 DEF Calm
    <2>2. /\ popped \in Seq(Instruction) /\ Len(popped) = n + 1
          /\ \A b \in Addr(code) : popped[b + 1] = code[b + 1]
          /\ Addr(popped) = Addr(code) \cup {n}
      BY <1>1, <2>1, AppendFacts
    <2>3. j \in Addr(code)
      BY <1>1
    <2> HIDE DEF popped, n, j
    <2> QED BY <2>2, <2>3
  <1> HIDE DEF popped, n, j
  <1>8. /\ looped \in Seq(Instruction) /\ Len(looped) = n + 2
        /\ looped[j + 1] = code[j + 1] /\ j \in Addr(looped)
    <2>1. /\ looped \in Seq(Instruction) /\ Len(looped) = Len(popped) + 1
          /\ \A b \in Addr(popped) : looped[b + 1] = popped[b + 1]
          /\ Addr(looped) = Addr(popped) \cup {Len(popped)}
      BY <1>5, <1>7, AppendFacts
    <2>2. (n + 1) + 1 = n + 2
      BY <1>2
    <2> HIDE DEF looped
    <2> QED BY <1>7, <2>1, <2>2
  <1> HIDE DEF looped
  <1>9. n + 2 \in Nat
    BY <1>2
  <1>10. patched \in Seq(Instruction) /\ Len(patched) = n + 2
    BY <1>8, <1>9, PatchFacts
  <1> HIDE DEF patched
  <1>11. Len(code2) = n + 3
    <2>1. Len(code2) = Len(patched) + 1
      BY <1>5, <1>10, AppendFacts DEF Calm
    <2>2. (n + 2) + 1 = n + 3
      BY <1>2
    <2> HIDE DEF code2
    <2> QED BY <1>10, <2>1, <2>2
  <1>12. n + 2 \in now /\ s \in now
    <2>1. n + 2 \in n .. (n + 3)
      BY <1>2
    <2> HIDE DEF code2
    <2>2. now = n .. (n + 3) \cup Positions(Last(stk))
      BY <1>1, <1>11, NowLast DEF n
    <2> HIDE DEF now
    <2> QED BY <1>4, <2>1, <2>2
  <1> HIDE DEF now, own
  <1>13. Builds(code, looped, {}, own, now)
    <2>1. Builds(code, code, {}, own, now)
      BY <1>1, BuildsNothing
    <2>2. Builds(code, popped, {}, own, now)
      BY <1>5, <2>1, CalmBuilds DEF popped
    <2>3. goto.op \notin {"Ldf", "EnterScope", "ExitScope"} /\ goto.arg \in now
      BY <1>5, <1>12
    <2> QED BY <1>5, <2>2, <2>3, BuildsAppend DEF looped
  <1>14. Builds(code, patched, Mine(stk), own, now)
    <2>1. looped[j + 1].op \in Jumps
      BY <1>1, <1>8
    <2>2. Builds(code, patched, {} \cup ({j} \cap Addr(code)), own, now)
      BY <1>8, <1>9, <1>12, <1>13, <2>1, BuildsPatch DEF patched
    <2>3. {} \cup ({j} \cap Addr(code)) = Mine(stk)
      BY <1>1
    <2> QED BY <2>2, <2>3
  <1>15. Builds(code, code2, Mine(stk), Own(Front(stk)), now)
    BY <1>5, <1>14, CalmBuilds DEF own
  <1>16. Nested(code2, Front(stk))
    <2>1. now = Now(code, code2, stk, Len(stk) - 1)
      BY DEF now
    <2> HIDE DEF code2
    <2> QED BY <1>1, <1>15, <2>1, NestedPop
  <1> QED BY <1>6, <1>8, <1>16 DEF patched, goto, s, j, n

\* A function without a body: its value is undefined.
LEMMA NestedEmptyFun ==
  ASSUME NEW code, NEW stk, Nested(code, stk)
  PROVE  LET n == Len(code)
             body == Append(Append(code, Instr("Goto")), Instr("Ldc"))
         IN  Nested(FnDeclEnd(body, n, n + 1), stk)
  <1> DEFINE n == Len(code)
             one == Append(code, Instr("Goto"))
             body == Append(one, Instr("Ldc"))
             a == FunAt(n, n + 1)
             stk2 == Append(stk, a)
  <1>1. code \in Seq(Instruction) /\ stk \in Seq(Activation) /\ n \in Nat /\ n + 1 \in Nat
    BY DEF Nested
  <1>2. /\ Instr("Goto") \in Instruction /\ Instr("Goto").op = "Goto"
        /\ Calm(Instr("Ldc"))
    BY InstrType DEF Opcodes, Calm
  <1>3. a \in Activation /\ a.site = "fun" /\ a.jump = n /\ a.start = n + 1
    <2>1. a \in Activation /\ a.site = "fun" /\ a.jump = n
      <3> HIDE DEF n
      <3> QED BY <1>1, FunAtType
    <2>2. a.start = n + 1
      BY DEF FunAt, At
    <2> QED BY <2>1, <2>2
  <1>4. /\ one \in Seq(Instruction) /\ Len(one) = n + 1
        /\ one[n + 1] = Instr("Goto") /\ n \in Addr(one)
    BY <1>1, <1>2, AppendFacts
  <1>5. n \in Addr(body) /\ body[n + 1] = Instr("Goto")
    <2>1. Instr("Ldc") \in Instruction
      BY <1>2 DEF Calm
    <2> HIDE DEF one, n
    <2>2. /\ \A b \in Addr(one) : body[b + 1] = one[b + 1]
          /\ Addr(body) = Addr(one) \cup {Len(one)}
      BY <1>4, <2>1, AppendFacts
    <2> HIDE DEF body
    <2> QED BY <1>4, <2>2
  <1> HIDE DEF a
  <1>6. Nested(one, stk2)
    <2> HIDE DEF stk2
    <2> QED BY <1>2, <1>3, OpenNested DEF stk2
  <1>7. Nested(body, stk2)
    <2> DEFINE now == Now(one, body, stk2, Len(stk2))
    <2>1. one \in Seq(Instruction)
      BY <1>4
    <2> HIDE DEF now, one
    <2>2. Builds(one, one, {}, Own(stk2), now)
      BY <2>1, BuildsNothing
    <2>3. Builds(one, body, {}, Own(stk2), now)
      BY <1>2, <2>2, CalmBuilds
    <2> HIDE DEF stk2, body
    <2> QED BY <1>6, <2>3, NestedStay DEF now
  <1>8. stk2 # <<>> /\ Last(stk2) = a /\ Front(stk2) = stk
    <2>1. a \in Activation
      BY <1>3
    <2> QED BY <1>1, <2>1 DEF Last, Front
  <1> HIDE DEF stk2, body, n
  <1>9. /\ Last(stk2).site = "fun" /\ Last(stk2).jump = n /\ Last(stk2).start = n + 1
        /\ body[n + 1].op \in Jumps
    BY <1>2, <1>3, <1>5, <1>8
  <1>10. Nested(FnDeclEnd(body, n, n + 1), stk)
    <2>1. Nested(FnDeclEnd(body, Last(stk2).jump, Last(stk2).start), Front(stk2))
      BY <1>5, <1>7, <1>8, <1>9, CloseNested
    <2> QED BY <1>8, <1>9, <2>1
  <1> QED BY <1>10 DEF body, n

-----------------------------------------------------------------------------
(* Steps that add no jump *)

AddsCalm ==
  \/ instructions' = instructions
  \/ \E i : Calm(i) /\ instructions' = Append(instructions, i)
  \/ \E i, j : Calm(i) /\ Calm(j) /\ instructions' = instructions \o <<i, j>>

LEMMA AddsCalmBuilds ==
  ASSUME instructions \in Seq(Instruction), AddsCalm, NEW own2, NEW now
  PROVE  Builds(instructions, instructions', {}, own2, now)
  <1>1. Builds(instructions, instructions, {}, own2, now)
    BY BuildsNothing
  <1>2. ASSUME NEW i, Calm(i)
        PROVE  Builds(instructions, Append(instructions, i), {}, own2, now)
    BY <1>1, <1>2, CalmBuilds
  <1>3. ASSUME NEW i, Calm(i), NEW j, Calm(j)
        PROVE  Builds(instructions, instructions \o <<i, j>>, {}, own2, now)
    <2>1. instructions \o <<i, j>> = Append(Append(instructions, i), j)
      BY <1>3, ConcatTwo DEF Calm
    <2>2. Builds(instructions, Append(instructions, i), {}, own2, now)
      BY <1>2, <1>3
    <2>3. Builds(instructions, Append(Append(instructions, i), j), {}, own2, now)
      BY <1>3, <2>2, CalmBuilds
    <2> QED BY <2>1, <2>3
  <1> QED BY <1>1, <1>2, <1>3 DEF AddsCalm

LEMMA FreeCall ==
  ASSUME Nested(instructions, stack), NEW a, Free(a), Call(a), AddsCalm
  PROVE  Nested(instructions', stack')
  <1> DEFINE now == Now(instructions, instructions', stack, Len(stack))
  <1>1. instructions \in Seq(Instruction)
    BY DEF Nested
  <1>2. Builds(instructions, instructions', {}, Own(Append(stack, a)), now)
    BY <1>1, AddsCalmBuilds
  <1>3. Positions(a) \subseteq now
    BY FreeFacts
  <1>4. Nested(instructions', Append(stack, a))
    BY <1>2, <1>3, FreeFacts, NestedPush
  <1> QED BY <1>4 DEF Call

LEMMA FreeReturn ==
  ASSUME Nested(instructions, stack), Return, AddsCalm
  PROVE  Nested(instructions', stack')
  <1> DEFINE now == Now(instructions, instructions', stack, Len(stack))
  <1>1. instructions \in Seq(Instruction)
    BY DEF Nested
  <1>2. Builds(instructions, instructions', {}, Own(stack), now)
    BY <1>1, AddsCalmBuilds
  <1>3. Nested(instructions', stack)
    BY <1>2, NestedStay
  <1> QED BY <1>3 DEF Return

\* The activation that goes on is the innermost one.
LEMMA Innermost ==
  ASSUME NEW site, Resume(site)
  PROVE  /\ stack # <<>> /\ top = Last(stack) /\ callers = Front(stack)
         /\ Last(stack).site = site
  BY DEF Resume, top, callers, Last, Front

LEMMA ResumeFree ==
  ASSUME IInv, NEW site, Resume(site), site \notin PatchSites \cup {"while pred", "blk"}
  PROVE  Free(Last(stack)) /\ Mine(stack) = {}
  <1>1. top \in Activation /\ top.site = site
    BY Resumed
  <1>2. top = Last(stack)
    BY Innermost
  <1> QED BY <1>1, <1>2 DEF Free, Plain, Scoped, Mine, Owns

LEMMA FreeContinue ==
  ASSUME IInv, Nested(instructions, stack), NEW site, Resume(site),
         site \notin PatchSites \cup {"while pred", "blk"},
         NEW a, Free(a), Continue(a), AddsCalm
  PROVE  Nested(instructions', stack')
  <1> DEFINE now == Now(instructions, instructions', stack, Len(stack) - 1)
             stk2 == Append(Front(stack), a)
  <1>1. instructions \in Seq(Instruction)
    BY DEF Nested
  <1>2. Free(Last(stack)) /\ Mine(stack) = {} /\ stack # <<>> /\ callers = Front(stack)
    BY ResumeFree, Innermost
  <1>3. Builds(instructions, instructions', Mine(stack), Own(stk2), now)
    BY <1>1, <1>2, AddsCalmBuilds
  <1>4. Positions(a) \subseteq now
    BY FreeFacts
  <1>5. /\ Last(stack).site # "fun" /\ ~Scoped(Last(stack))
        /\ a \in Activation /\ a.site # "fun" /\ ~Scoped(a)
    BY <1>2, FreeFacts
  <1>6. Nested(instructions', stk2)
    BY <1>2, <1>3, <1>4, <1>5, NestedSwap
  <1> QED BY <1>2, <1>6 DEF Continue

LEMMA FreeFinish ==
  ASSUME IInv, Nested(instructions, stack), NEW site, Resume(site),
         site \notin PatchSites \cup {"while pred", "blk"}, Finish, AddsCalm
  PROVE  Nested(instructions', stack')
  <1> DEFINE now == Now(instructions, instructions', stack, Len(stack) - 1)
  <1>1. instructions \in Seq(Instruction)
    BY DEF Nested
  <1>2. Free(Last(stack)) /\ Mine(stack) = {} /\ stack # <<>> /\ callers = Front(stack)
    BY ResumeFree, Innermost
  <1>3. Builds(instructions, instructions', Mine(stack), Own(Front(stack)), now)
    BY <1>1, <1>2, AddsCalmBuilds
  <1>4. Last(stack).site # "fun" /\ ~Scoped(Last(stack))
    BY <1>2, FreeFacts
  <1>5. Nested(instructions', Front(stack))
    BY <1>2, <1>3, <1>4, NestedPop
  <1> QED BY <1>2, <1>5 DEF Finish

LEMMA FreeAt ==
  ASSUME NEW site \in Sites, site \notin PatchSites \cup {"while pred"}
  PROVE  Free(At(site))
  <1>1. Plain(At(site))
    BY PlainAt
  <1>2. ~Scoped(At(site))
    BY DEF Scoped, At
  <1> QED BY <1>1, <1>2 DEF Free

LEMMA CalmInstr ==
  ASSUME NEW op \in Opcodes, op \notin Jumps \cup {"Ldf", "EnterScope", "ExitScope"}
  PROVE  Calm(Instr(op))
  BY InstrType DEF Calm

LEMMA AddsCalmInstr ==
  ASSUME NEW op \in Opcodes, op \notin Jumps \cup {"Ldf", "EnterScope", "ExitScope"},
         addInstr(op)
  PROVE  AddsCalm
  BY CalmInstr DEF AddsCalm, addInstr

\* The statements that may follow.
LEMMA NextStatementFree ==
  ASSUME NEW declares \in {"no", "may", "must"}, NEW nodes,
         NEW statement \in NextStatement(declares, nodes)
  PROVE  Free(statement)
  <1> DEFINE s == At("statement")  d == At("declaration")
  <1>1. /\ s \in Activation /\ s.site = "statement"
        /\ d \in Activation /\ d.site = "declaration"
    BY AtType DEF Sites
  <1>2. \/ statement = [s EXCEPT !.declares = declares]
        \/ statement = [d EXCEPT !.declares = "may"]
    BY DEF NextStatement
  <1> HIDE DEF s, d
  <1>3. Free([s EXCEPT !.declares = declares])
    BY <1>1, AmendScan DEF Free, Plain, PatchSites, Scoped
  <1>4. Free([d EXCEPT !.declares = "may"])
    BY <1>1, AmendScan DEF Free, Plain, PatchSites, Scoped
  <1> QED BY <1>2, <1>3, <1>4

LEMMA ValuesNested ==
  ASSUME IInv, Nested(instructions, stack), Values
  PROVE  Nested(instructions', stack')
  <1> USE DEF Sites, Opcodes, PatchSites
  <1>1. ASSUME Lit PROVE Nested(instructions', stack')
    <2>1. Node("lit") /\ addInstr("Ldc") /\ Return
      BY <1>1 DEF Lit
    <2>2. AddsCalm
      BY <2>1, AddsCalmInstr
    <2> QED BY <2>1, <2>2, FreeReturn
  <1>2. ASSUME Nam PROVE Nested(instructions', stack')
    <2>1. Node("nam") /\ addInstr("Ld") /\ Return
      BY <1>2 DEF Nam
    <2>2. AddsCalm
      BY <2>1, AddsCalmInstr
    <2> QED BY <2>1, <2>2, FreeReturn
  <1>3. ASSUME compileBinaryOp PROVE Nested(instructions', stack')
    <2>1. PICK kind : Node(kind)
      BY <1>3 DEF compileBinaryOp
    <2>2. Call(At("binary first")) /\ AddsCalm
      BY <1>3 DEF compileBinaryOp, AddsCalm
    <2>3. Free(At("binary first"))
      BY FreeAt
    <2> QED BY <2>1, <2>2, <2>3, FreeCall
  <1>4. ASSUME BinaryFirst PROVE Nested(instructions', stack')
    <2>1. Resume("binary first") /\ Continue(At("binary second")) /\ AddsCalm
      BY <1>4 DEF BinaryFirst, AddsCalm
    <2>2. Free(At("binary second"))
      BY FreeAt
    <2> QED BY <2>1, <2>2, FreeContinue
  <1>5. ASSUME BinarySecond PROVE Nested(instructions', stack')
    <2>1. Resume("binary second") /\ addInstr("Binop") /\ Finish
      BY <1>5 DEF BinarySecond
    <2>2. AddsCalm
      BY <2>1, AddsCalmInstr
    <2> QED BY <2>1, <2>2, FreeFinish
  <1>6. ASSUME compileUnaryOp PROVE Nested(instructions', stack')
    <2>1. PICK kind : Node(kind)
      BY <1>6 DEF compileUnaryOp
    <2>2. Call(At("unary")) /\ AddsCalm
      BY <1>6 DEF compileUnaryOp, AddsCalm
    <2>3. Free(At("unary"))
      BY FreeAt
    <2> QED BY <2>1, <2>2, <2>3, FreeCall
  <1>7. ASSUME UnaryFirst PROVE Nested(instructions', stack')
    <2>1. Resume("unary") /\ addInstr("Unop") /\ Finish
      BY <1>7 DEF UnaryFirst
    <2>2. AddsCalm
      BY <2>1, AddsCalmInstr
    <2> QED BY <2>1, <2>2, FreeFinish
  <1>8. ASSUME TypeCast PROVE Nested(instructions', stack')
    <2>1. Node("type_cast") /\ Call(At("cast")) /\ AddsCalm
      BY <1>8 DEF TypeCast, AddsCalm
    <2>2. Free(At("cast"))
      BY FreeAt
    <2> QED BY <2>1, <2>2, FreeCall
  <1>9. ASSUME CastFirst PROVE Nested(instructions', stack')
    <2>1. Resume("cast") /\ addInstr("Binop") /\ Finish
      BY <1>9 DEF CastFirst
    <2>2. AddsCalm
      BY <2>1, AddsCalmInstr
    <2> QED BY <2>1, <2>2, FreeFinish
  <1>10. ASSUME App PROVE Nested(instructions', stack')
    <2>1. Node("app")
      BY <1>10 DEF App
    <2>2. CASE instructions' = instructions \o <<Instr("Ld"), Instr("Call")>> /\ Return
      <3>1. Calm(Instr("Ld")) /\ Calm(Instr("Call"))
        BY CalmInstr
      <3>2. AddsCalm
        BY <2>2, <3>1 DEF AddsCalm
      <3> QED BY <2>1, <2>2, <3>2, FreeReturn
    <2>3. ASSUME NEW arity \in 1 .. MaxArgs, addInstr("Ld"),
                 Call([At("app") EXCEPT !.arity = arity, !.left = arity - 1])
          PROVE  Nested(instructions', stack')
      <3>1. AddsCalm
        BY <2>3, AddsCalmInstr
      <3>2. At("app") \in Activation /\ At("app").site = "app"
        BY AtType
      <3>3. arity \in Nat /\ arity - 1 \in Nat
        BY CompilerAssumption
      <3>4. Free([At("app") EXCEPT !.arity = arity, !.left = arity - 1])
        <4> DEFINE a == At("app")  left == arity - 1
        <4>1. a \in Activation /\ a.site = "app" /\ left \in Nat
          BY <3>2, <3>3
        <4> HIDE DEF a, left
        <4>2. Free([a EXCEPT !.arity = arity, !.left = left])
          BY <3>3, <4>1, AmendArguments DEF Free, Plain, Scoped
        <4> QED BY <4>2 DEF a, left
      <3> QED BY <2>1, <2>3, <3>1, <3>4, FreeCall
    <2> QED BY <1>10, <2>2, <2>3 DEF App
  <1>11. ASSUME AppArgument PROVE Nested(instructions', stack')
    <2>1. Resume("app")
      BY <1>11 DEF AppArgument
    <2>2. top \in Activation /\ top.site = "app"
      BY <2>1, Resumed
    <2> DEFINE a == [top EXCEPT !.left = top.left - 1]
               i == [op |-> "Call", arg |-> top.arity]
    <2>3. CASE top.left > 0
      <3>1. Continue(a) /\ AddsCalm
        BY <1>11, <2>3 DEF AppArgument, AddsCalm
      <3>2. top.left - 1 \in Nat
        <4> DEFINE left == top.left
        <4>1. left \in Nat /\ left > 0
          BY <2>2, <2>3 DEF Activation
        <4> HIDE DEF left
        <4>2. left - 1 \in Nat
          BY <4>1
        <4> QED BY <4>2 DEF left
      <3>3. Free(a)
        <4> DEFINE t == top  left == t.left - 1
        <4>1. t \in Activation /\ t.site = "app" /\ left \in Nat
          BY <2>2, <3>2
        <4> HIDE DEF t, left
        <4>2. Free([t EXCEPT !.left = left])
          BY <4>1, AmendArguments DEF Free, Plain, Scoped
        <4> QED BY <4>2 DEF t, left
      <3> HIDE DEF a
      <3> QED BY <2>1, <3>1, <3>3, FreeContinue
    <2>4. CASE ~(top.left > 0)
      <3>1. instructions' = Append(instructions, i) /\ Finish
        BY <1>11, <2>4 DEF AppArgument
      <3>2. Calm(i)
        BY <2>2 DEF Calm, Activation, Instruction
      <3>3. AddsCalm
        BY <3>1, <3>2 DEF AddsCalm
      <3> QED BY <2>1, <3>1, <3>3, FreeFinish
    <2> QED BY <2>3, <2>4
  <1> QED
    BY <1>1, <1>2, <1>3, <1>4, <1>5, <1>6, <1>7, <1>8, <1>9, <1>10, <1>11
    DEF Values

LEMMA StatementsNested ==
  ASSUME IInv, Nested(instructions, stack), Statements
  PROVE  Nested(instructions', stack')
  <1> USE DEF Sites, Opcodes, PatchSites
  <1>1. ASSUME compileSequence PROVE Nested(instructions', stack')
    <2>1. Node("seq")
      BY <1>1 DEF compileSequence
    <2>2. CASE addInstr("Ldc") /\ Return
      <3>1. AddsCalm
        BY <2>2, AddsCalmInstr
      <3> QED BY <2>1, <2>2, <3>1, FreeReturn
    <2>3. ASSUME NEW statement \in NextStatement(Declares, fuel'),
                 Call(statement), UNCHANGED instructions
          PROVE  Nested(instructions', stack')
      <3>1. Declares \in {"no", "may", "must"}
        BY DEF Declares
      <3>2. Free(statement)
        BY <2>3, <3>1, NextStatementFree
      <3>3. AddsCalm
        BY <2>3 DEF AddsCalm
      <3> QED BY <2>1, <2>3, <3>2, <3>3, FreeCall
    <2> QED BY <1>1, <2>2, <2>3 DEF compileSequence
  <1>2. ASSUME SequenceStatement PROVE Nested(instructions', stack')
    <2>1. PICK site \in {"statement", "declaration"} : Resume(site)
      BY <1>2 DEF SequenceStatement
    <2>2. CASE Finish /\ UNCHANGED instructions
      <3>1. AddsCalm
        BY <2>2 DEF AddsCalm
      <3> QED BY <2>1, <2>2, <3>1, FreeFinish
    <2>3. ASSUME NEW statement \in NextStatement(top.declares, fuel),
                 Continue(statement), addInstr("Pop")
          PROVE  Nested(instructions', stack')
      <3>1. top.declares \in {"no", "may", "must"}
        BY <2>1, Resumed DEF Activation
      <3>2. Free(statement)
        BY <2>3, <3>1, NextStatementFree
      <3>3. AddsCalm
        BY <2>3, AddsCalmInstr
      <3> QED BY <2>1, <2>3, <3>2, <3>3, FreeContinue
    <2> QED BY <1>2, <2>2, <2>3 DEF SequenceStatement
  <1>3. ASSUME compileBlock PROVE Nested(instructions', stack')
    <2>1. Node("blk")
      BY <1>3 DEF compileBlock
    <2>2. Free(At("blk")) /\ At("blk") \in Activation /\ At("blk").site = "blk"
      BY FreeAt, AtType
    <2>3. CASE addInstr("EnterScope") /\ Call([At("blk") EXCEPT !.has_locals = TRUE])
      <3> DEFINE b == At("blk")  a == [b EXCEPT !.has_locals = TRUE]
                 i == Instr("EnterScope")
      <3>1. i \in Instruction /\ i.op = "EnterScope"
        BY InstrType
      <3>2. a \in Activation /\ Scoped(a)
        <4>1. b \in Activation /\ b.site = "blk"
          BY <2>2
        <4> HIDE DEF b
        <4>2. a \in Activation /\ a.site = "blk"
          BY <4>1, AmendScan
        <4>3. a.has_locals = TRUE
          BY <4>1 DEF Activation
        <4> QED BY <4>2, <4>3 DEF Scoped
      <3>3. instructions' = Append(instructions, i) /\ stack' = Append(stack, a)
        BY <2>3 DEF addInstr, Call
      <3> HIDE DEF a, i
      <3> QED BY <3>1, <3>2, <3>3, EnterNested
    <2>4. CASE Call(At("blk")) /\ UNCHANGED instructions
      <3>1. AddsCalm
        BY <2>4 DEF AddsCalm
      <3> QED BY <2>1, <2>2, <2>4, <3>1, FreeCall
    <2> QED BY <1>3, <2>3, <2>4 DEF compileBlock
  <1>4. ASSUME BlockBody PROVE Nested(instructions', stack')
    <2>1. Resume("blk") /\ Finish
      BY <1>4 DEF BlockBody
    <2>2. /\ stack # <<>> /\ top = Last(stack) /\ callers = Front(stack)
          /\ top \in Activation /\ top.site = "blk"
      BY <2>1, Innermost, Resumed
    <2>3. stack' = Front(stack)
      BY <2>1, <2>2 DEF Finish
    <2>4. CASE top.has_locals /\ addInstr("ExitScope")
      <3>1. Scoped(Last(stack))
        BY <2>2, <2>4 DEF Scoped
      <3>2. Instr("ExitScope") \in Instruction /\ Instr("ExitScope").op = "ExitScope"
        BY InstrType
      <3>3. instructions' = Append(instructions, Instr("ExitScope"))
        BY <2>4 DEF addInstr
      <3> QED BY <2>2, <2>3, <3>1, <3>2, <3>3, LeaveNested
    <2>5. CASE ~top.has_locals /\ instructions' = instructions
      <3> DEFINE now == Now(instructions, instructions, stack, Len(stack) - 1)
      <3>1. ~Scoped(Last(stack)) /\ Last(stack).site # "fun" /\ Mine(stack) = {}
        BY <2>2, <2>5 DEF Scoped, Mine, Owns
      <3>2. instructions \in Seq(Instruction)
        BY DEF Nested
      <3>3. Builds(instructions, instructions, Mine(stack), Own(Front(stack)), now)
        BY <3>1, <3>2, BuildsNothing
      <3>4. Nested(instructions, Front(stack))
        BY <2>2, <3>1, <3>3, NestedPop
      <3> QED BY <2>3, <2>5, <3>4
    <2> QED BY <1>4, <2>4, <2>5 DEF BlockBody
  <1>5. ASSUME compileVarDecl PROVE Nested(instructions', stack')
    <2>1. Node("assign") /\ Call(At("assign")) /\ AddsCalm
      BY <1>5 DEF compileVarDecl, AddsCalm
    <2>2. Free(At("assign"))
      BY FreeAt
    <2> QED BY <2>1, <2>2, FreeCall
  <1>6. ASSUME VarDeclValue PROVE Nested(instructions', stack')
    <2>1. Resume("assign") /\ addInstr("Assign") /\ Finish
      BY <1>6 DEF VarDeclValue
    <2>2. AddsCalm
      BY <2>1, AddsCalmInstr
    <2> QED BY <2>1, <2>2, FreeFinish
  <1>7. ASSUME Reassign PROVE Nested(instructions', stack')
    <2>1. Node("reassign") /\ Call(At("reassign")) /\ AddsCalm
      BY <1>7 DEF Reassign, AddsCalm
    <2>2. Free(At("reassign"))
      BY FreeAt
    <2> QED BY <2>1, <2>2, FreeCall
  <1>8. ASSUME ReassignValue PROVE Nested(instructions', stack')
    <2>1. Resume("reassign")
      BY <1>8 DEF ReassignValue
    <2>2. CASE addInstr("Assign") /\ Finish
      <3>1. AddsCalm
        BY <2>2, AddsCalmInstr
      <3> QED BY <2>1, <2>2, <3>1, FreeFinish
    <2>3. CASE Fail
      BY <2>3 DEF Fail
    <2> QED BY <1>8, <2>2, <2>3 DEF ReassignValue
  <1>9. ASSUME CompoundAssign PROVE Nested(instructions', stack')
    <2>1. Node("compound_assign")
      BY <1>9 DEF CompoundAssign
    <2>2. CASE addInstr("Ld") /\ Call(At("compound"))
      <3>1. AddsCalm
        BY <2>2, AddsCalmInstr
      <3>2. Free(At("compound"))
        BY FreeAt
      <3> QED BY <2>1, <2>2, <3>1, <3>2, FreeCall
    <2>3. CASE Fail
      BY <2>3 DEF Fail
    <2> QED BY <1>9, <2>2, <2>3 DEF CompoundAssign
  <1>10. ASSUME CompoundValue PROVE Nested(instructions', stack')
    <2>0. Resume("compound")
      BY <1>10 DEF CompoundValue
    <2>1. /\ instructions' = instructions \o <<Instr("Binop"), Instr("Assign")>>
          /\ Finish
      BY <1>10 DEF CompoundValue
    <2>2. Calm(Instr("Binop")) /\ Calm(Instr("Assign"))
      BY CalmInstr
    <2>3. AddsCalm
      BY <2>1, <2>2 DEF AddsCalm
    <2> QED BY <2>0, <2>1, <2>3, FreeFinish
  <1> QED
    BY <1>1, <1>2, <1>3, <1>4, <1>5, <1>6, <1>7, <1>8, <1>9, <1>10 DEF Statements

-----------------------------------------------------------------------------
(* Steps that add or patch jumps *)

LEMMA ResumeJof ==
  ASSUME IInv, Nested(instructions, stack), NEW site, Resume(site),
         site \notin PatchSites \cup {"blk"},
         NEW i \in Instruction, i.op \in Jumps, NEW q, Calm(q),
         instructions' \in {Append(instructions, i), instructions \o <<i, q>>},
         NEW a \in Activation, Owns(a), a.site # "fun", a.jump = Len(instructions),
         Looping(a) => Looping(top) /\ a.start = top.start,
         Continue(a)
  PROVE  Nested(instructions', stack')
  <1>1. instructions \in Seq(Instruction)
    BY DEF Nested
  <1>2. stack # <<>> /\ top = Last(stack) /\ callers = Front(stack)
        /\ Last(stack).site = site
    BY Innermost
  <1>3. ~Owns(Last(stack)) /\ ~Scoped(Last(stack))
    BY <1>2 DEF Owns, Scoped
  <1>4. Looping(a) => Looping(Last(stack)) /\ a.start = Last(stack).start
    BY <1>2
  <1>5. /\ Nested(Append(instructions, i), Append(Front(stack), a))
        /\ Nested(Append(Append(instructions, i), q), Append(Front(stack), a))
    BY <1>2, <1>3, <1>4, NestedJof
  <1>6. instructions \o <<i, q>> = Append(Append(instructions, i), q)
    BY <1>1, ConcatTwo DEF Calm
  <1>7. stack' = Append(Front(stack), a)
    BY <1>2 DEF Continue
  <1> QED BY <1>5, <1>6, <1>7

\* The jump that the innermost activation owns has still to be patched.
LEMMA ResumeOwned ==
  ASSUME IInv, NEW site, Resume(site), site \in PatchSites
  PROVE  /\ Owns(Last(stack))
         /\ Last(stack).jump \in Addr(instructions)
         /\ instructions[Last(stack).jump + 1].op \in Jumps
  <1>1. top = Last(stack) /\ top.site = site
    BY Innermost
  <1>2. Frame(instructions, callers, Own(callers) \cup {top.jump})
    BY Resumed
  <1>3. /\ top.jump \in Addr(instructions)
        /\ instructions[top.jump + 1].op \in Jumps
    BY <1>2, OwnAddr
  <1> QED BY <1>1, <1>3 DEF Owns

LEMMA ResumePatching ==
  ASSUME IInv, Nested(instructions, stack), NEW site, Resume(site),
         site \in PatchSites, site # "fun"
  PROVE  Patching(instructions, stack)
  BY ResumeOwned, Innermost DEF Patching

LEMMA ResumeNestedPatch ==
  ASSUME IInv, Nested(instructions, stack), NEW site, Resume(site),
         site \in PatchSites, site # "fun",
         instructions' = patchJump(instructions, top.jump, nextInstrAddr), Finish
  PROVE  Nested(instructions', stack')
  <1>1. top = Last(stack) /\ callers = Front(stack)
    BY Innermost
  <1>2. Nested(patchJump(instructions, Last(stack).jump, Len(instructions)), Front(stack))
    BY ResumePatching, NestedPatch
  <1> QED BY <1>1, <1>2 DEF Finish, nextInstrAddr

LEMMA ControlNested ==
  ASSUME IInv, Nested(instructions, stack), Control
  PROVE  Nested(instructions', stack')
  <1> USE DEF Sites, Opcodes, PatchSites
  <1>0. /\ Calm(Instr("Pop")) /\ Calm(Instr("Ldc")) /\ Calm(Instr("Reset"))
        /\ Instr("Jof") \in Instruction /\ Instr("Jof").op = "Jof"
        /\ Instr("Goto") \in Instruction /\ Instr("Goto").op = "Goto"
        /\ Instr("Pop") \in Instruction /\ Instr("Pop").op = "Pop"
    BY CalmInstr, InstrType
  <1>1. ASSUME compileConditional PROVE Nested(instructions', stack')
    <2>1. Node("cond") /\ Call(At("cond pred")) /\ AddsCalm
      BY <1>1 DEF compileConditional, AddsCalm
    <2>2. Free(At("cond pred"))
      BY FreeAt
    <2> QED BY <2>1, <2>2, FreeCall
  <1>2. ASSUME CondPred PROVE Nested(instructions', stack')
    <2> DEFINE c == At("cond cons")
               n == Len(instructions)
               a == [c EXCEPT !.jump = n]
    <2>1. Resume("cond pred") /\ addInstr("Jof") /\ Continue(a)
      BY <1>2 DEF CondPred, nextInstrAddr
    <2>2. n \in Nat
      BY DEF IInv, TypeOK
    <2>3. c \in Activation /\ c.site = "cond cons"
      BY AtType
    <2> HIDE DEF c
    <2>4. a \in Activation /\ Owns(a) /\ a.jump = n /\ a.site # "fun"
          /\ ~Looping(a)
      <3> HIDE DEF n
      <3> QED BY <2>2, <2>3, AmendJump DEF Owns, Looping
    <2> HIDE DEF a
    <2>5. instructions' \in {Append(instructions, Instr("Jof")),
                             instructions \o <<Instr("Jof"), Instr("Pop")>>}
      BY <2>1 DEF addInstr
    <2> QED BY <1>0, <2>1, <2>4, <2>5, ResumeJof
  <1>3. ASSUME CondAlt PROVE Nested(instructions', stack')
    <2>1. Resume("cond alt")
      BY <1>3 DEF CondAlt
    <2>2. instructions' = patchJump(instructions, top.jump, nextInstrAddr) /\ Finish
      BY <1>3 DEF CondAlt
    <2> QED BY <2>1, <2>2, ResumeNestedPatch
  <1>4. ASSUME ReturnStatement PROVE Nested(instructions', stack')
    <2>1. Node("return_statement")
      BY <1>4 DEF ReturnStatement
    <2>2. CASE Call(At("return")) /\ UNCHANGED instructions
      <3>1. AddsCalm
        BY <2>2 DEF AddsCalm
      <3>2. Free(At("return"))
        BY FreeAt
      <3> QED BY <2>1, <2>2, <3>1, <3>2, FreeCall
    <2>3. CASE instructions' = instructions \o <<Instr("Ldc"), Instr("Reset")>> /\ Return
      <3>1. AddsCalm
        BY <1>0, <2>3 DEF AddsCalm
      <3> QED BY <2>1, <2>3, <3>1, FreeReturn
    <2> QED BY <1>4, <2>2, <2>3 DEF ReturnStatement
  <1>5. ASSUME ReturnBody PROVE Nested(instructions', stack')
    <2>1. Resume("return") /\ addInstr("Reset") /\ Finish
      BY <1>5 DEF ReturnBody
    <2>2. AddsCalm
      BY <2>1, AddsCalmInstr
    <2> QED BY <2>1, <2>2, FreeFinish
  <1>6. ASSUME Logic PROVE Nested(instructions', stack')
    <2>1. Node("logic") /\ AddsCalm
      BY <1>6 DEF Logic, AddsCalm
    <2>2. PICK site \in {"and first", "or first"} : Call(At(site))
      BY <1>6 DEF Logic
    <2>3. Free(At(site))
      BY <2>2, FreeAt
    <2> QED BY <2>1, <2>2, <2>3, FreeCall
  <1>7. ASSUME AndFirst PROVE Nested(instructions', stack')
    <2> DEFINE c == At("and second")
               n == Len(instructions)
               a == [c EXCEPT !.jump = n]
    <2>1. /\ Resume("and first")
          /\ instructions' = instructions \o <<Instr("Jof"), Instr("Pop")>>
          /\ Continue(a)
      BY <1>7 DEF AndFirst, nextInstrAddr
    <2>2. n \in Nat
      BY DEF IInv, TypeOK
    <2>3. c \in Activation /\ c.site = "and second"
      BY AtType
    <2> HIDE DEF c
    <2>4. a \in Activation /\ Owns(a) /\ a.jump = n /\ a.site # "fun"
          /\ ~Looping(a)
      <3> HIDE DEF n
      <3> QED BY <2>2, <2>3, AmendJump DEF Owns, Looping
    <2> HIDE DEF a
    <2>5. instructions' \in {Append(instructions, Instr("Jof")),
                             instructions \o <<Instr("Jof"), Instr("Pop")>>}
      BY <2>1
    <2> QED BY <1>0, <2>1, <2>4, <2>5, ResumeJof
  <1>8. ASSUME LogicSecond PROVE Nested(instructions', stack')
    <2>1. PICK site \in {"and second", "or second"} : Resume(site)
      BY <1>8 DEF LogicSecond
    <2>2. instructions' = patchJump(instructions, top.jump, nextInstrAddr) /\ Finish
      BY <1>8 DEF LogicSecond
    <2> QED BY <2>1, <2>2, ResumeNestedPatch
  <1>9. ASSUME WhileLoop PROVE Nested(instructions', stack')
    <2> DEFINE c == At("while pred")
               n == Len(instructions)
               a == [c EXCEPT !.start = n]
    <2>1. Node("while_loop") /\ Call(a) /\ UNCHANGED instructions
      BY <1>9 DEF WhileLoop, nextInstrAddr
    <2>2. instructions \in Seq(Instruction) /\ n \in Nat
      BY DEF IInv, TypeOK
    <2>3. c \in Activation /\ c.site = "while pred"
      BY AtType
    <2> HIDE DEF c
    <2>4. a \in Activation /\ a.site = "while pred" /\ a.start = n
      <3> HIDE DEF n
      <3> QED BY <2>2, <2>3, AmendJump
    <2> HIDE DEF a
    <2>5. a.site # "fun" /\ ~Scoped(a) /\ Positions(a) = {n}
      BY <2>4 DEF Scoped, Positions, Owns, Looping
    <2> DEFINE now == Now(instructions, instructions, stack, Len(stack))
    <2>6. Positions(a) \subseteq now
      <3>1. n \in n .. n
        BY <2>2
      <3> QED BY <2>5, <3>1 DEF Now
    <2>7. Builds(instructions, instructions, {}, Own(Append(stack, a)), now)
      BY <2>2, BuildsNothing
    <2>8. Nested(instructions, Append(stack, a))
      BY <2>4, <2>5, <2>6, <2>7, NestedPush
    <2> QED BY <2>1, <2>8 DEF Call
  <1>10. ASSUME WhilePred PROVE Nested(instructions', stack')
    <2> DEFINE n == Len(instructions)
               s == top.start
               a == LoopAt(s, n)
    <2>1. Resume("while pred") /\ addInstr("Jof") /\ Continue(a)
      BY <1>10 DEF WhilePred, nextInstrAddr, LoopAt
    <2>2. n \in Nat /\ s \in Nat /\ s <= n
      <3>1. Resume("while pred")
        BY <2>1
      <3>2. top \in Activation /\ instructions \in Seq(Instruction)
        BY <3>1, Resumed
      <3>3. s <= n
        BY <3>1, Resumed
      <3>4. s \in Nat
        BY <3>2 DEF Activation
      <3>5. n \in Nat
        BY <3>2
      <3> QED BY <3>3, <3>4, <3>5
    <2> HIDE DEF s
    <2>3. /\ a \in Activation /\ a.site = "while body"
          /\ a.jump = n /\ a.start = s
      <3> HIDE DEF n
      <3> QED BY <2>2, LoopAtType
    <2> HIDE DEF a
    <2>4. /\ a \in Activation /\ Owns(a) /\ a.site # "fun"
          /\ a.jump = n /\ a.start = s
      BY <2>3 DEF Owns
    <2>5. instructions' \in {Append(instructions, Instr("Jof")),
                             instructions \o <<Instr("Jof"), Instr("Pop")>>}
      BY <2>1 DEF addInstr
    <2>6. Looping(top) /\ a.start = top.start
      <3>1. top.site = "while pred"
        BY <2>1, Innermost
      <3> QED BY <2>4, <3>1 DEF Looping, s
    <2> HIDE DEF PatchSites
    <2>7. "while pred" \notin PatchSites \cup {"blk"}
      BY DEF PatchSites
    <2> QED BY <1>0, <2>1, <2>4, <2>5, <2>6, <2>7, ResumeJof
  <1>11. ASSUME ContinueOrBreak PROVE Nested(instructions', stack')
    BY <1>11 DEF ContinueOrBreak, Fail
  <1>12. ASSUME FnBody PROVE Nested(instructions', stack')
    <2>1. Resume("fun")
      BY <1>12 DEF FnBody
    <2>2. instructions' = FnDeclEnd(instructions, top.jump, top.start) /\ Finish
      BY <1>12 DEF FnBody
    <2>3. /\ Last(stack).jump \in Addr(instructions)
          /\ instructions[Last(stack).jump + 1].op \in Jumps
      BY <2>1, ResumeOwned
    <2>4. /\ stack # <<>> /\ top = Last(stack) /\ callers = Front(stack)
          /\ Last(stack).site = "fun"
      BY <2>1, Innermost
    <2>5. Nested(FnDeclEnd(instructions, Last(stack).jump, Last(stack).start),
                 Front(stack))
      BY <2>3, <2>4, CloseNested
    <2> QED BY <2>2, <2>4, <2>5 DEF Finish
  <1>13. ASSUME WhileBody PROVE Nested(instructions', stack')
    <2>1. Resume("while body")
      BY <1>13 DEF WhileBody
    <2>2. Finish
      BY <1>13 DEF WhileBody
    <2>3. LET looped == instructions \o <<Instr("Pop"), [op |-> "Goto", arg |-> top.start]>>
          IN  instructions' =
                Append(patchJump(looped, top.jump, Len(looped)), Instr("Ldc"))
      BY <1>13 DEF WhileBody
    <2>4. top = Last(stack) /\ callers = Front(stack) /\ Looping(Last(stack))
      BY <2>1, Innermost DEF Looping
    <2>5. Patching(instructions, stack)
      BY <2>1, ResumePatching
    <2>6. Nested(instructions', Front(stack))
      BY <2>3, <2>4, <2>5, NestedLoop
    <2> QED BY <2>2, <2>4, <2>6 DEF Finish
  <1>14. ASSUME CondCons PROVE Nested(instructions', stack')
    <2> DEFINE n == Len(instructions)
               c == At("cond alt")
               a == [c EXCEPT !.jump = n]
               code == patchJump(Append(instructions, Instr("Goto")), top.jump, n + 1)
    <2>1. Resume("cond cons")
      BY <1>14 DEF CondCons
    <2>2. n \in Nat
      BY DEF IInv, TypeOK
    <2>3. top = Last(stack) /\ callers = Front(stack) /\ Patching(instructions, stack)
      BY <2>1, Innermost, ResumePatching
    <2>4. c \in Activation /\ c.site = "cond alt"
      BY AtType
    <2> HIDE DEF c
    <2>5. a \in Activation /\ Owns(a) /\ a.jump = n /\ a.site # "fun" /\ ~Looping(a)
      <3> HIDE DEF n
      <3> QED BY <2>2, <2>4, AmendJump DEF Owns, Looping
    <2> HIDE DEF a
    <2>6. /\ Nested(code, Append(Front(stack), a))
          /\ Nested(patchJump(Append(code, Instr("Ldc")), n, n + 2), Front(stack))
      BY <2>3, <2>5, NestedCons
    <2>7. CASE instructions' = code /\ Continue(a)
      <3>1. stack' = Append(Front(stack), a)
        BY <2>3, <2>7 DEF Continue
      <3> HIDE DEF code
      <3> QED BY <2>6, <2>7, <3>1
    <2>8. CASE instructions' = patchJump(Append(code, Instr("Ldc")), n, n + 1 + 1) /\ Finish
      <3>1. stack' = Front(stack)
        BY <2>3, <2>8 DEF Finish
      <3>2. n + 1 + 1 = n + 2
        <4> HIDE DEF n
        <4> QED BY <2>2
      <3> HIDE DEF code, n
      <3> QED BY <2>6, <2>8, <3>1, <3>2
    <2> QED BY <1>14, <2>7, <2>8 DEF CondCons, nextInstrAddr, a, c
  <1>15. ASSUME OrFirst PROVE Nested(instructions', stack')
    <2> DEFINE n == Len(instructions)
               c == At("or second")
               m == n + 1
               a == [c EXCEPT !.jump = m]
               both == instructions \o <<Instr("Jof"), Instr("Goto")>>
               two == Append(Append(instructions, Instr("Jof")), Instr("Goto"))
    <2>1. Resume("or first")
      BY <1>15 DEF OrFirst
    <2>2. instructions' = Append(patchJump(both, n, n + 2), Instr("Pop")) /\ Continue(a)
      BY <1>15 DEF OrFirst, nextInstrAddr
    <2>3. instructions \in Seq(Instruction) /\ n \in Nat /\ m \in Nat
      BY DEF IInv, TypeOK
    <2>4. both = two
      BY <1>0, <2>3, ConcatTwo
    <2>5. /\ stack # <<>> /\ callers = Front(stack)
          /\ ~Owns(Last(stack)) /\ ~Scoped(Last(stack))
      <3>1. stack # <<>> /\ callers = Front(stack) /\ Last(stack).site = "or first"
        BY <2>1, Innermost
      <3> QED BY <3>1 DEF Owns, Scoped
    <2>6. c \in Activation /\ c.site = "or second"
      BY AtType
    <2> HIDE DEF c
    <2>7. a \in Activation /\ Owns(a) /\ ~Looping(a) /\ a.site # "fun" /\ a.jump = m
      <3> HIDE DEF m
      <3> QED BY <2>3, <2>6, AmendJump DEF Owns, Looping
    <2> HIDE DEF a
    <2>8. Nested(Append(patchJump(two, n, n + 2), Instr("Pop")), Append(Front(stack), a))
      BY <2>5, <2>7, NestedOr
    <2>9. stack' = Append(Front(stack), a)
      BY <2>2, <2>5 DEF Continue
    <2> HIDE DEF both, two
    <2> QED BY <2>2, <2>4, <2>8, <2>9
  <1>16. ASSUME compileFnDecl PROVE Nested(instructions', stack')
    <2> DEFINE n == Len(instructions)
               code == Append(instructions, Instr("Goto"))
               a == FunAt(n, n + 1)
    <2>1. n \in Nat /\ n + 1 \in Nat
      BY DEF IInv, TypeOK
    <2>2. CASE instructions' = code /\ Call(a)
      <3>1. stack' = Append(stack, a)
        BY <2>2 DEF Call
      <3>2. a \in Activation /\ a.site = "fun" /\ a.jump = n
        <4> HIDE DEF n
        <4> QED BY <2>1, FunAtType
      <3>3. a.start = n + 1
        BY DEF FunAt, At
      <3> HIDE DEF a
      <3>4. Nested(code, Append(stack, a))
        BY <1>0, <3>2, <3>3, OpenNested
      <3> QED BY <2>2, <3>1, <3>4
    <2>3. CASE instructions' = FnDeclEnd(Append(code, Instr("Ldc")), n, n + 1) /\ Return
      <3>1. Nested(FnDeclEnd(Append(code, Instr("Ldc")), n, n + 1), stack)
        BY NestedEmptyFun
      <3> QED BY <2>3, <3>1 DEF Return
    <2> QED BY <1>16, <2>2, <2>3 DEF compileFnDecl, nextInstrAddr, FunAt
  <1> QED
    BY <1>1, <1>2, <1>3, <1>4, <1>5, <1>6, <1>7, <1>8, <1>9, <1>10, <1>11,
       <1>12, <1>13, <1>14, <1>15, <1>16
    DEF Control

-----------------------------------------------------------------------------
(* The theorems *)

\* Only compileProgram completes the program.
LEMMA StillWorking ==
  ASSUME Values \/ Statements \/ Control
  PROVE  mode' # "done"
  <1> USE DEF Return, Finish, Call, Continue, Fail
  <1>1. ASSUME Values PROVE mode' # "done"
    BY <1>1
    DEF Values, Lit, Nam, compileBinaryOp, BinaryFirst, BinarySecond, compileUnaryOp,
        UnaryFirst, TypeCast, CastFirst, App, AppArgument
  <1>2. ASSUME Statements PROVE mode' # "done"
    BY <1>2
    DEF Statements, compileSequence, SequenceStatement, compileBlock, BlockBody,
        compileVarDecl, VarDeclValue, Reassign, ReassignValue, CompoundAssign,
        CompoundValue
  <1>3. ASSUME Control PROVE mode' # "done"
    BY <1>3
    DEF Control, compileConditional, CondPred, CondCons, CondAlt, compileFnDecl, FnBody,
        ReturnStatement, ReturnBody, Logic, AndFirst, OrFirst, LogicSecond, WhileLoop,
        WhilePred, WhileBody, ContinueOrBreak
  <1> QED BY <1>1, <1>2, <1>3

NestingInv ==
  /\ IInv
  /\ Nested(instructions, stack)
  /\ mode = "done" => stack = <<>>

LEMMA NestingInit ==
  ASSUME Init
  PROVE  NestingInv
  <1>1. IInv
    BY InvariantInit
  <1>2. instructions = <<>> /\ stack = <<>> /\ mode = "compile"
    BY DEF Init
  <1>3. <<>> \in Seq(Instruction) /\ <<>> \in Seq(Activation)
        /\ Addr(<<>>) = {} /\ Final(<<>>, <<>>) = {} /\ Len(<<>>) = 0
    BY DEF Addr, Final
  <1>4. Nest(<<>>, <<>>)
    BY <1>3 DEF Nest
  <1>5. \A b \in 0 .. 0 : Depth(<<>>, b) = 0
    <2>1. ASSUME NEW b \in 0 .. 0, NEW op PROVE {c \in 0 .. (b - 1) : <<>>[c + 1].op = op} = {}
      OBVIOUS
    <2>2. Cardinality({}) = 0 /\ 0 - 0 = 0
      BY FS_EmptySet
    <2> QED BY <2>1, <2>2 DEF Depth
  <1>6. Scopes(<<>>, 1) = 0
    <2>1. {l \in 1 .. (1 - 1) : Scoped(<<>>[l])} = {}
      OBVIOUS
    <2> QED BY <2>1, FS_EmptySet DEF Scopes
  <1>7. Levels(<<>>, <<>>)
    BY <1>3, <1>5, <1>6 DEF Levels
  <1> QED BY <1>1, <1>2, <1>3, <1>4, <1>7 DEF NestingInv, Nested

LEMMA NestingStep ==
  ASSUME NestingInv, [Next]_vars
  PROVE  NestingInv'
  <1>1. IInv /\ Nested(instructions, stack)
    BY DEF NestingInv
  <1>2. IInv'
    BY <1>1, InvariantStep
  <1>3. ASSUME Values \/ Statements \/ Control PROVE NestingInv'
    <2>1. Nested(instructions', stack')
      BY <1>1, <1>3, ValuesNested, StatementsNested, ControlNested
    <2>2. mode' # "done"
      BY <1>3, StillWorking
    <2> QED BY <1>2, <2>1, <2>2 DEF NestingInv
  <1>4. ASSUME compileProgram PROVE NestingInv'
    <2>1. stack = <<>> /\ stack' = stack /\ addInstr("Done")
      BY <1>4 DEF compileProgram
    <2>2. AddsCalm
      BY <2>1, AddsCalmInstr DEF Opcodes
    <2>3. instructions \in Seq(Instruction)
      BY <1>1 DEF Nested
    <2> DEFINE now == Now(instructions, instructions', stack, Len(stack))
    <2>4. Builds(instructions, instructions', {}, Own(stack), now)
      BY <2>2, <2>3, AddsCalmBuilds
    <2>5. Nested(instructions', stack)
      BY <1>1, <2>4, NestedStay
    <2> QED BY <1>2, <2>1, <2>5 DEF NestingInv
  <1>5. ASSUME UNCHANGED vars PROVE NestingInv'
    <2>1. UNCHANGED <<instructions, stack, mode>>
      BY <1>5 DEF vars
    <2> QED BY <1>2, <2>1 DEF NestingInv
  <1> QED BY <1>3, <1>4, <1>5 DEF Next, Terminating

\* The induction: that functions are closed and scopes balance in the finished
\* program says nothing of the code before, where jumps are unpatched and
\* functions and blocks still open.
THEOREM NestingInvariant == Spec => []NestingInv
  BY NestingInit, NestingStep, PTL DEF Spec

\* In a finished program nothing is waiting: every jump is final.
LEMMA Finished ==
  ASSUME NestingInv, mode = "done"
  PROVE  /\ Nest(instructions, <<>>) /\ Levels(instructions, <<>>)
         /\ Addresses = Addr(instructions) /\ Len(instructions) \in Nat
         /\ Final(instructions, <<>>) = Jumping
  <1>1. Nested(instructions, <<>>)
    BY DEF NestingInv
  <1>2. instructions \in Seq(Instruction)
    BY <1>1 DEF Nested
  <1>3. Addresses = Addr(instructions)
    BY DEF Addresses, Addr
  <1>4. Own(<<>>) = {}
    BY DEF Own
  <1>5. Final(instructions, <<>>) = Jumping
    BY <1>3, <1>4 DEF Final, Jumping, Code
  <1> QED BY <1>1, <1>2, <1>3, <1>5 DEF Nested

\* compileFnDecl (compiler.zig:302-350) puts a function's code in the middle of
\* its caller's: in a finished program it ends with a Reset, and no jump from
\* inside a body leaves it nor does one from outside land in it.
THEOREM FunctionsStayClosed == Spec => []FunctionsAreClosed
  <1>1. ASSUME NestingInv PROVE FunctionsAreClosed
    <2> SUFFICES ASSUME mode = "done", NEW a \in Addresses, Code(a).op = "Ldf"
                 PROVE  /\ Code(a - 1).op = "Reset"
                        /\ \A j \in Jumping : j \in Body(a) <=> Code(j).arg \in Body(a)
      BY DEF FunctionsAreClosed
    <2>1. a \in Addr(instructions) /\ instructions[a + 1].op = "Ldf"
          /\ Nest(instructions, <<>>) /\ Final(instructions, <<>>) = Jumping
      BY <1>1, Finished DEF Code
    <2>2. Closed(instructions, <<>>, a)
      BY <2>1 DEF Nest
    <2>3. (a - 1) + 1 = a
      BY <2>1 DEF Addr
    <2>4. Code(a - 1).op = "Reset"
      BY <2>2, <2>3 DEF Closed, Code
    <2> QED BY <2>1, <2>2, <2>4 DEF Closed, Inside, Body, Code
  <1> QED BY <1>1, NestingInvariant, PTL

\* compileBlock (compiler.zig:228-244) enters a scope for a block with locals
\* and leaves it at its end: in a finished program no scope is left that was
\* not entered, no jump enters or leaves one, and functions and the program
\* end in the scope they began in.
THEOREM ScopesStayBalanced == Spec => []ScopesBalance
  <1>1. ASSUME NestingInv PROVE ScopesBalance
    <2> SUFFICES ASSUME mode = "done"
                 PROVE  /\ \A a \in Addresses : ScopeDepth(a) >= 0
                        /\ \A a \in Jumping : ScopeDepth(Code(a).arg) = ScopeDepth(a)
                        /\ \A a \in Addresses : Code(a).op = "Ldf" =>
                             ScopeDepth(Code(a).arg) = ScopeDepth(a)
                        /\ ScopeDepth(Len(instructions)) = 0
      BY DEF ScopesBalance
    <2>1. /\ Levels(instructions, <<>>) /\ Addresses = Addr(instructions)
          /\ Final(instructions, <<>>) = Jumping /\ Len(instructions) \in Nat
      BY <1>1, Finished
    <2>2. \A a : ScopeDepth(a) = Depth(instructions, a)
      BY DEF ScopeDepth, Depth, Code
    <2>3. ASSUME NEW a \in Addresses PROVE ScopeDepth(a) >= 0
      <3>1. a \in 0 .. Len(instructions)
        BY <2>1 DEF Addr
      <3> QED BY <2>1, <2>2, <3>1 DEF Levels
    <2>4. \A a \in Jumping : ScopeDepth(Code(a).arg) = ScopeDepth(a)
      BY <2>1, <2>2 DEF Levels, Code
    <2>5. \A a \in Addresses : Code(a).op = "Ldf" =>
            ScopeDepth(Code(a).arg) = ScopeDepth(a)
      BY <2>1, <2>2 DEF Levels, Code
    <2>6. ScopeDepth(Len(instructions)) = 0
      <3>1. Depth(instructions, Len(instructions)) = Scopes(<<>>, Len(<<>>) + 1)
        BY <2>1 DEF Levels
      <3>2. Len(<<>>) + 1 = 1
        OBVIOUS
      <3>3. {l \in 1 .. (1 - 1) : Scoped(<<>>[l])} = {}
        OBVIOUS
      <3>4. Scopes(<<>>, 1) = 0
        BY <3>3, FS_EmptySet DEF Scopes
      <3> QED BY <2>2, <3>1, <3>2, <3>4
    <2> QED BY <2>3, <2>4, <2>5, <2>6
  <1> QED BY <1>1, NestingInvariant, PTL

=============================================================================
