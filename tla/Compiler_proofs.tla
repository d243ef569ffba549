-------------------------- MODULE Compiler_proofs --------------------------
(***************************************************************************)
(* Type correctness of the compiler, and that it patches every jump.       *)
(***************************************************************************)
EXTENDS Compiler, TLAPS

USE DEF Jumps

-----------------------------------------------------------------------------
(* Owned jumps: those that a waiting activation will patch. *)

PatchSites ==
  {"cond cons", "cond alt", "fun", "and second", "or second", "while body"}

Owns(activation) == activation.site \in PatchSites

Own(stk) == {stk[k].jump : k \in {l \in DOMAIN stk : Owns(stk[l])}}

Addr(code) == 0 .. (Len(code) - 1)

\* The Goto at a closes a loop whose Jof nobody is going to patch again.
Back(code, own, a) ==
  /\ code[a + 1].op = "Goto"
  /\ a > 0
  /\ code[a].op = "Pop"
  /\ \E j \in code[a + 1].arg .. (a - 1) :
       j \notin own /\ code[j + 1] = [op |-> "Jof", arg |-> a + 1]

Lands(code, own, a) ==
  code[a + 1].arg \in (a + 1) .. Len(code) \/ Back(code, own, a)

\* Every jump is owned or lands.
Sound(code, own) ==
  /\ \A a \in own : a \in Addr(code) /\ code[a + 1].op \in Jumps
  /\ \A a \in Addr(code) \ own : code[a + 1].op \in Jumps => Lands(code, own, a)

\* No jump has two owners.
Distinct(stk) ==
  \A k, l \in DOMAIN stk :
    k # l /\ Owns(stk[k]) /\ Owns(stk[l]) => stk[k].jump # stk[l].jump

\* A loop begins before the Jof that leaves it.
Loops(code, stk) ==
  \A k \in DOMAIN stk :
    /\ stk[k].site = "while pred" => stk[k].start <= Len(code)
    /\ stk[k].site = "while body" =>
         stk[k].start <= stk[k].jump /\ code[stk[k].jump + 1].op = "Jof"

\* The code and the stack agree, with the jumps of own still to be patched:
\* the stack's, and those that the current step has just added or taken over.
Frame(code, stk, own) ==
  /\ code \in Seq(Instruction)
  /\ stk \in Seq(Activation)
  /\ Own(stk) \subseteq own
  /\ Distinct(stk)
  /\ Loops(code, stk)
  /\ Sound(code, own)

IInv ==
  /\ TypeOK
  /\ mode \in {"compile", "return"} => Frame(instructions, stack, Own(stack))
  /\ JumpsLand

-----------------------------------------------------------------------------
(* Code *)

LEMMA InstrType ==
  ASSUME NEW op \in Opcodes
  PROVE  Instr(op) \in Instruction /\ Instr(op).op = op
  BY DEF Instr, Instruction

LEMMA ConcatTwo ==
  ASSUME NEW code \in Seq(Instruction), NEW i \in Instruction, NEW j \in Instruction
  PROVE  code \o <<i, j>> = Append(Append(code, i), j)
  OBVIOUS

\* What patching leaves alone.
LEMMA PatchFacts ==
  ASSUME NEW code \in Seq(Instruction), NEW j \in Addr(code), NEW t \in Nat
  PROVE  /\ patchJump(code, j, t) \in Seq(Instruction)
         /\ Len(patchJump(code, j, t)) = Len(code)
         /\ \A a \in Addr(code) \ {j} : patchJump(code, j, t)[a + 1] = code[a + 1]
         /\ patchJump(code, j, t)[j + 1].op = code[j + 1].op
         /\ patchJump(code, j, t)[j + 1].arg = t
  <1> DEFINE patched == patchJump(code, j, t)
             old == code[j + 1]
             new == [old EXCEPT !.arg = t]
  <1>1. /\ j + 1 \in 1 .. Len(code) /\ j \in Nat
        /\ old \in Instruction
    BY DEF Addr
  <1>2. new \in Instruction /\ new.op = old.op /\ new.arg = t
    <2> HIDE DEF old
    <2> QED BY <1>1 DEF Instruction
  <1>3. patched = [code EXCEPT ![j + 1] = new]
    BY DEF patchJump
  <1> HIDE DEF patched, old, new
  <1>4. patched \in Seq(Instruction) /\ Len(patched) = Len(code)
    BY <1>1, <1>2, <1>3
  <1>5. patched[j + 1] = new
    BY <1>1, <1>3
  <1>6. \A a \in Addr(code) \ {j} : patched[a + 1] = code[a + 1]
    BY <1>1, <1>3 DEF Addr
  <1>7. /\ patched[j + 1].op = code[j + 1].op
        /\ patched[j + 1].arg = t
    BY <1>2, <1>5 DEF old
  <1> QED BY <1>4, <1>6, <1>7 DEF patched

LEMMA AppendFacts ==
  ASSUME NEW code \in Seq(Instruction), NEW i \in Instruction
  PROVE  /\ Append(code, i) \in Seq(Instruction)
         /\ Len(Append(code, i)) = Len(code) + 1
         /\ \A a \in Addr(code) : Append(code, i)[a + 1] = code[a + 1]
         /\ Append(code, i)[Len(code) + 1] = i
         /\ Addr(Append(code, i)) = Addr(code) \cup {Len(code)}
         /\ Len(code) \notin Addr(code)
  BY DEF Addr

\* Code that has only grown, or had a jump patched.
Extends(code, code2) ==
  /\ Len(code) <= Len(code2)
  /\ \A a \in Addr(code) : code2[a + 1].op = code[a + 1].op

LEMMA ExtendsAppend ==
  ASSUME NEW code \in Seq(Instruction), NEW i \in Instruction
  PROVE  Extends(code, Append(code, i))
  <1> DEFINE longer == Append(code, i)
  <1>1. Len(longer) = Len(code) + 1 /\ Len(code) \in Nat
    OBVIOUS
  <1>2. \A a \in Addr(code) : longer[a + 1] = code[a + 1]
    BY AppendFacts
  <1> HIDE DEF longer
  <1>3. Extends(code, longer)
    BY <1>1, <1>2 DEF Extends
  <1> QED BY <1>3 DEF longer

LEMMA ExtendsPatch ==
  ASSUME NEW code \in Seq(Instruction), NEW j \in Addr(code), NEW t \in Nat
  PROVE  Extends(code, patchJump(code, j, t))
  <1>1. \A a \in Addr(code) : patchJump(code, j, t)[a + 1].op = code[a + 1].op
    BY PatchFacts
  <1> QED BY <1>1, PatchFacts DEF Extends

-----------------------------------------------------------------------------
(* Owned jumps *)

LEMMA OwnAppend ==
  ASSUME NEW stk \in Seq(Activation), NEW a \in Activation
  PROVE  Own(Append(stk, a)) = Own(stk) \cup (IF Owns(a) THEN {a.jump} ELSE {})
  <1> DEFINE longer == Append(stk, a)
  <1>1. /\ DOMAIN longer = DOMAIN stk \cup {Len(stk) + 1}
        /\ \A k \in DOMAIN stk : longer[k] = stk[k]
        /\ longer[Len(stk) + 1] = a
    OBVIOUS
  <1> HIDE DEF longer
  <1>2. ASSUME NEW j \in Own(longer)
        PROVE  j \in Own(stk) \cup (IF Owns(a) THEN {a.jump} ELSE {})
    <2>1. PICK k \in DOMAIN longer : Owns(longer[k]) /\ j = longer[k].jump
      BY <1>2 DEF Own
    <2>2. CASE k \in DOMAIN stk
      BY <1>1, <2>1, <2>2 DEF Own
    <2>3. CASE k = Len(stk) + 1
      BY <1>1, <2>1, <2>3
    <2> QED BY <1>1, <2>2, <2>3
  <1>3. ASSUME NEW j \in Own(stk) PROVE j \in Own(longer)
    BY <1>1, <1>3 DEF Own
  <1>4. Owns(a) => a.jump \in Own(longer)
    BY <1>1 DEF Own
  <1>5. Own(longer) = Own(stk) \cup (IF Owns(a) THEN {a.jump} ELSE {})
    BY <1>2, <1>3, <1>4
  <1> QED BY <1>5 DEF longer

\* Only jumps of the code are owned.
LEMMA OwnAddr ==
  ASSUME NEW code, NEW stk, NEW own, Frame(code, stk, own), NEW j \in own
  PROVE  j \in Addr(code) /\ code[j + 1].op \in Jumps /\ j \in Nat /\ j < Len(code)
  <1>1. j \in Addr(code) /\ code[j + 1].op \in Jumps
    BY DEF Frame, Sound
  <1>2. Len(code) \in Nat
    BY DEF Frame
  <1> QED BY <1>1, <1>2 DEF Addr

LEMMA LoopsExtend ==
  ASSUME NEW code, NEW stk, NEW own, Frame(code, stk, own),
         NEW code2 \in Seq(Instruction), Extends(code, code2)
  PROVE  Loops(code2, stk)
  <1> SUFFICES ASSUME NEW k \in DOMAIN stk
               PROVE  /\ stk[k].site = "while pred" => stk[k].start <= Len(code2)
                      /\ stk[k].site = "while body" =>
                           /\ stk[k].start <= stk[k].jump
                           /\ code2[stk[k].jump + 1].op = "Jof"
    BY DEF Loops
  <1>1. stk[k] \in Activation
    BY DEF Frame
  <1>2. stk[k].site = "while pred" => stk[k].start <= Len(code2)
    <2>1. stk[k].start \in Nat /\ Len(code) \in Nat /\ Len(code2) \in Nat
      BY <1>1 DEF Frame, Activation
    <2>2. stk[k].site = "while pred" => stk[k].start <= Len(code)
      BY DEF Frame, Loops
    <2>3. Len(code) <= Len(code2)
      BY DEF Extends
    <2> DEFINE m == stk[k].start  n == Len(code)  n2 == Len(code2)
    <2> HIDE DEF m, n, n2
    <2>4. m \in Nat /\ n \in Nat /\ n2 \in Nat /\ n <= n2
      BY <2>1, <2>3 DEF m, n, n2
    <2>5. m <= n => m <= n2
      BY <2>4
    <2> QED BY <2>2, <2>5 DEF m, n, n2
  <1>3. ASSUME stk[k].site = "while body"
        PROVE  stk[k].start <= stk[k].jump /\ code2[stk[k].jump + 1].op = "Jof"
    <2>1. stk[k].jump \in Own(stk)
      BY <1>3 DEF Own, Owns, PatchSites
    <2>2. stk[k].jump \in Addr(code)
      BY <2>1 DEF Frame, Sound
    <2> QED BY <1>3, <2>2 DEF Frame, Loops, Extends
  <1> QED BY <1>2, <1>3

-----------------------------------------------------------------------------
(* Growing the code *)

\* The code grows, at most the owned jumps of changed change, and none of the
\* code's other jumps gets an owner.
Keeps(code, code2, own, own2, changed) ==
  /\ code \in Seq(Instruction)
  /\ code2 \in Seq(Instruction)
  /\ Len(code) <= Len(code2)
  /\ changed \subseteq own
  /\ own2 \cap Addr(code) \subseteq own
  /\ \A b \in Addr(code) \ changed : code2[b + 1] = code[b + 1]
  /\ \A b \in changed : code[b + 1].op \in Jumps

\* Then a jump that lands goes on to land.
LEMMA LandsKeeps ==
  ASSUME NEW code, NEW code2, NEW own, NEW own2, NEW changed,
         Keeps(code, code2, own, own2, changed),
         NEW a \in Addr(code) \ changed, Lands(code, own, a)
  PROVE  Lands(code2, own2, a)
  <1> USE DEF Keeps
  <1> DEFINE n == Len(code)  n2 == Len(code2)
  <1>1. /\ n \in Nat /\ n2 \in Nat /\ n <= n2
        /\ Addr(code) = 0 .. (n - 1)
        /\ a \in Nat
        /\ code2[a + 1] = code[a + 1]
    BY DEF Addr
  <1>2. code[a + 1] \in Instruction
    BY <1>1
  <1> HIDE DEF n, n2
  <1>3. CASE code[a + 1].arg \in (a + 1) .. Len(code)
    <2> DEFINE t == code[a + 1].arg
    <2>1. t \in (a + 1) .. n
      BY <1>3 DEF n
    <2> HIDE DEF t
    <2>2. t \in (a + 1) .. n2
      BY <1>1, <2>1
    <2> QED BY <1>1, <2>2 DEF Lands, t, n2
  <1>4. CASE Back(code, own, a)
    <2>1. a > 0 /\ code[a + 1].op = "Goto" /\ code[a].op = "Pop"
      BY <1>4 DEF Back
    <2>2. code2[a] = code[a]
      <3>1. a - 1 \in Addr(code) /\ (a - 1) + 1 = a
        BY <1>1, <2>1
      <3>2. a - 1 \notin changed
        BY <2>1, <3>1
      <3> QED BY <3>1, <3>2
    <2>3. PICK j \in code[a + 1].arg .. (a - 1) :
            j \notin own /\ code[j + 1] = [op |-> "Jof", arg |-> a + 1]
      BY <1>4 DEF Back
    <2>4. j \in Addr(code)
      BY <1>1, <1>2, <2>3 DEF Instruction
    <2>5. j \notin own2 /\ code2[j + 1] = code[j + 1]
      BY <2>3, <2>4
    <2> QED BY <1>1, <2>1, <2>2, <2>3, <2>5 DEF Lands, Back
  <1> QED BY <1>3, <1>4 DEF Lands

LEMMA SoundAppend ==
  ASSUME NEW code \in Seq(Instruction), NEW own, Sound(code, own),
         NEW i \in Instruction, i.op \notin Jumps
  PROVE  Sound(Append(code, i), own)
  <1> DEFINE longer == Append(code, i)
             n == Len(code)
  <1>0. n \in Nat /\ Len(longer) = n + 1
    OBVIOUS
  <1>1. /\ n \in Nat /\ Len(longer) = n + 1
        /\ longer \in Seq(Instruction)
        /\ \A a \in Addr(code) : longer[a + 1] = code[a + 1]
        /\ longer[n + 1] = i
        /\ Addr(longer) = Addr(code) \cup {n}
    BY <1>0, AppendFacts
  <1> HIDE DEF longer
  <1>2. ASSUME NEW a \in own PROVE a \in Addr(longer) /\ longer[a + 1].op \in Jumps
    BY <1>1 DEF Sound
  <1>3. ASSUME NEW a \in Addr(longer) \ own, longer[a + 1].op \in Jumps
        PROVE  Lands(longer, own, a)
    <2>1. a \in Addr(code) /\ longer[a + 1] = code[a + 1]
      BY <1>1, <1>3
    <2>2. Lands(code, own, a)
      BY <1>3, <2>1 DEF Sound
    <2>3. Keeps(code, longer, own, own, {})
      <3> HIDE DEF n
      <3>1. Len(code) <= Len(longer)
        <4>1. n <= n + 1
          BY <1>1
        <4> QED BY <1>1, <4>1 DEF n
      <3> QED BY <1>1, <3>1 DEF Keeps
    <2> QED BY <2>1, <2>2, <2>3, LandsKeeps
  <1> QED BY <1>2, <1>3 DEF Sound, longer

\* A jump that has just been added is owned.
LEMMA SoundAppendJump ==
  ASSUME NEW code \in Seq(Instruction), NEW own, Sound(code, own),
         NEW i \in Instruction, i.op \in Jumps
  PROVE  Sound(Append(code, i), own \cup {Len(code)}) /\ Len(code) \notin own
  <1> DEFINE longer == Append(code, i)
             n == Len(code)
             own2 == own \cup {n}
  <1>0. n \in Nat /\ Len(longer) = n + 1
    OBVIOUS
  <1>1. /\ n \in Nat /\ Len(longer) = n + 1
        /\ longer \in Seq(Instruction)
        /\ \A a \in Addr(code) : longer[a + 1] = code[a + 1]
        /\ longer[n + 1] = i
        /\ Addr(longer) = Addr(code) \cup {n}
        /\ n \notin Addr(code)
    BY <1>0, AppendFacts
  <1> HIDE DEF longer
  <1>2. ASSUME NEW a \in own2 PROVE a \in Addr(longer) /\ longer[a + 1].op \in Jumps
    BY <1>1, <1>2 DEF Sound
  <1>3. ASSUME NEW a \in Addr(longer) \ own2, longer[a + 1].op \in Jumps
        PROVE  Lands(longer, own2, a)
    <2>1. a \in Addr(code) /\ longer[a + 1] = code[a + 1]
      BY <1>1, <1>3
    <2>2. Lands(code, own, a)
      BY <1>3, <2>1 DEF Sound
    <2>3. Keeps(code, longer, own, own2, {})
      <3>1. own2 \cap Addr(code) \subseteq own
        BY <1>1
      <3> HIDE DEF n, own2
      <3>2. Len(code) <= Len(longer)
        <4>1. n <= n + 1
          BY <1>1
        <4> QED BY <1>1, <4>1 DEF n
      <3> QED BY <1>1, <3>1, <3>2 DEF Keeps
    <2> HIDE DEF own2
    <2> QED BY <2>1, <2>2, <2>3, LandsKeeps
  <1>4. n \notin own
    BY <1>1 DEF Sound
  <1>5. Sound(longer, own2)
    BY <1>2, <1>3 DEF Sound
  <1> QED BY <1>4, <1>5 DEF longer

\* Patching a jump so that it lands takes it from its owner.
LEMMA SoundPatch ==
  ASSUME NEW code \in Seq(Instruction), NEW own, Sound(code, own),
         NEW b \in own, NEW t \in (b + 1) .. Len(code)
  PROVE  Sound(patchJump(code, b, t), own \ {b})
  <1> DEFINE patched == patchJump(code, b, t)
             n == Len(code)
             own2 == own \ {b}
  <1>0. b \in Addr(code) /\ code[b + 1].op \in Jumps /\ b \in Nat /\ t \in Nat
    BY DEF Sound, Addr
  <1>1. /\ n \in Nat /\ Len(patched) = n
        /\ patched \in Seq(Instruction)
        /\ \A a \in Addr(code) \ {b} : patched[a + 1] = code[a + 1]
        /\ patched[b + 1].op = code[b + 1].op
        /\ patched[b + 1].arg = t
    BY <1>0, PatchFacts
  <1>2. Addr(patched) = Addr(code)
    BY <1>1 DEF Addr
  <1> HIDE DEF patched
  <1>3. ASSUME NEW a \in own2 PROVE a \in Addr(patched) /\ patched[a + 1].op \in Jumps
    BY <1>1, <1>2, <1>3 DEF Sound
  <1>4. ASSUME NEW a \in Addr(patched) \ own2, patched[a + 1].op \in Jumps
        PROVE  Lands(patched, own2, a)
    <2>1. CASE a = b
      BY <1>1, <2>1 DEF Lands
    <2>2. CASE a # b
      <3>1. a \in Addr(code) \ {b} /\ a \notin own
        BY <1>2, <1>4, <2>2
      <3>2. Lands(code, own, a)
        BY <1>1, <1>4, <3>1 DEF Sound
      <3>3. /\ own2 \cap Addr(code) \subseteq own
            /\ {b} \subseteq own
            /\ \A c \in {b} : code[c + 1].op \in Jumps
        BY <1>0
      <3>4. Len(code) <= Len(patched)
        BY <1>1
      <3> HIDE DEF n, own2
      <3>5. Keeps(code, patched, own, own2, {b})
        BY <1>1, <3>3, <3>4 DEF Keeps
      <3> QED BY <3>1, <3>2, <3>5, LandsKeeps
    <2> QED BY <2>1, <2>2
  <1>5. Sound(patched, own2)
    BY <1>3, <1>4 DEF Sound
  <1> QED BY <1>5 DEF patched

\* The jump back of a loop lands without being patched.
LEMMA SoundDrop ==
  ASSUME NEW code \in Seq(Instruction), NEW own, Sound(code, own),
         NEW g \in own, Back(code, own \ {g}, g)
  PROVE  Sound(code, own \ {g})
  <1>1. ASSUME NEW a \in own \ {g} PROVE a \in Addr(code) /\ code[a + 1].op \in Jumps
    BY DEF Sound
  <1>2. ASSUME NEW a \in Addr(code) \ (own \ {g}), code[a + 1].op \in Jumps
        PROVE  Lands(code, own \ {g}, a)
    <2>1. CASE a = g
      BY <2>1 DEF Lands
    <2>2. CASE a # g
      <3>1. Lands(code, own, a)
        BY <1>2, <2>2 DEF Sound
      <3>2. Len(code) <= Len(code)
        <4>1. Len(code) \in Nat
          OBVIOUS
        <4> QED BY <4>1
      <3>3. Keeps(code, code, own, own \ {g}, {})
        BY <3>2 DEF Keeps
      <3> QED BY <1>2, <3>1, <3>3, LandsKeeps
    <2> QED BY <2>1, <2>2
  <1> QED BY <1>1, <1>2 DEF Sound

-----------------------------------------------------------------------------
(* The parts of a step *)

LEMMA FrameAppend ==
  ASSUME NEW code, NEW stk, NEW own, Frame(code, stk, own),
         NEW i \in Instruction, i.op \notin Jumps
  PROVE  Frame(Append(code, i), stk, own)
  <1>1. code \in Seq(Instruction) /\ Sound(code, own)
    BY DEF Frame
  <1>2. Append(code, i) \in Seq(Instruction) /\ Extends(code, Append(code, i))
    BY <1>1, ExtendsAppend
  <1>3. Loops(Append(code, i), stk)
    BY <1>2, LoopsExtend
  <1>4. Sound(Append(code, i), own)
    BY <1>1, SoundAppend
  <1> HIDE DEF Jumps
  <1> QED BY <1>2, <1>3, <1>4 DEF Frame

LEMMA FrameAppendJump ==
  ASSUME NEW code, NEW stk, NEW own, Frame(code, stk, own),
         NEW i \in Instruction, i.op \in Jumps
  PROVE  Frame(Append(code, i), stk, own \cup {Len(code)}) /\ Len(code) \notin own
  <1>1. code \in Seq(Instruction) /\ Sound(code, own)
    BY DEF Frame
  <1>2. Append(code, i) \in Seq(Instruction) /\ Extends(code, Append(code, i))
    BY <1>1, ExtendsAppend
  <1>3. Loops(Append(code, i), stk)
    BY <1>2, LoopsExtend
  <1>4. Sound(Append(code, i), own \cup {Len(code)}) /\ Len(code) \notin own
    BY <1>1, SoundAppendJump
  <1>5. Own(stk) \subseteq own \cup {Len(code)}
    BY DEF Frame
  <1> QED BY <1>2, <1>3, <1>4, <1>5 DEF Frame

LEMMA FramePatch ==
  ASSUME NEW code, NEW stk, NEW own, Frame(code, stk, own),
         NEW b \in own, b \notin Own(stk), NEW t \in (b + 1) .. Len(code)
  PROVE  Frame(patchJump(code, b, t), stk, own \ {b})
  <1>1. code \in Seq(Instruction) /\ Sound(code, own)
    BY DEF Frame
  <1>2. b \in Addr(code) /\ t \in Nat
    BY <1>1 DEF Sound, Addr
  <1>3. patchJump(code, b, t) \in Seq(Instruction)
    BY <1>1, <1>2, PatchFacts
  <1>4. Extends(code, patchJump(code, b, t))
    BY <1>1, <1>2, ExtendsPatch
  <1>5. Loops(patchJump(code, b, t), stk)
    BY <1>3, <1>4, LoopsExtend
  <1>6. Sound(patchJump(code, b, t), own \ {b})
    BY <1>1, SoundPatch
  <1>7. Own(stk) \subseteq own \ {b}
    BY DEF Frame
  <1> QED BY <1>3, <1>5, <1>6, <1>7 DEF Frame

LEMMA FrameDrop ==
  ASSUME NEW code, NEW stk, NEW own, Frame(code, stk, own),
         NEW g \in own, g \notin Own(stk), Back(code, own \ {g}, g)
  PROVE  Frame(code, stk, own \ {g})
  <1>1. code \in Seq(Instruction) /\ Sound(code, own)
    BY DEF Frame
  <1>2. Sound(code, own \ {g})
    BY <1>1, SoundDrop
  <1>3. Own(stk) \subseteq own \ {g}
    BY DEF Frame
  <1> QED BY <1>1, <1>2, <1>3 DEF Frame

\* The facts about a longer stack that the next two lemmas share.
LEMMA Longer ==
  ASSUME NEW stk \in Seq(Activation), NEW a \in Activation
  PROVE  /\ Append(stk, a) \in Seq(Activation)
         /\ DOMAIN Append(stk, a) = DOMAIN stk \cup {Len(stk) + 1}
         /\ Len(stk) + 1 \notin DOMAIN stk
         /\ \A k \in DOMAIN stk : Append(stk, a)[k] = stk[k]
         /\ Append(stk, a)[Len(stk) + 1] = a
  OBVIOUS

\* A call, or the call that continues an activation.
LEMMA FramePush ==
  ASSUME NEW code, NEW stk, NEW own, Frame(code, stk, own),
         NEW a \in Activation,
         Owns(a) => a.jump \in own \ Own(stk),
         a.site = "while pred" => a.start <= Len(code),
         a.site = "while body" => a.start <= a.jump /\ code[a.jump + 1].op = "Jof"
  PROVE  Frame(code, Append(stk, a), own)
  <1> DEFINE longer == Append(stk, a)
             n == Len(stk) + 1
  <1>1. /\ longer \in Seq(Activation)
        /\ DOMAIN longer = DOMAIN stk \cup {n}
        /\ n \notin DOMAIN stk
        /\ \A k \in DOMAIN stk : longer[k] = stk[k]
        /\ longer[n] = a
    BY Longer DEF Frame
  <1>2. Own(longer) \subseteq own
    <2>1. stk \in Seq(Activation) /\ Own(stk) \subseteq own
      BY DEF Frame
    <2>2. Own(longer) = Own(stk) \cup (IF Owns(a) THEN {a.jump} ELSE {})
      BY <2>1, OwnAppend
    <2> HIDE DEF longer
    <2> QED BY <2>1, <2>2
  <1> HIDE DEF longer, n
  <1>3. \A k \in DOMAIN stk : Owns(stk[k]) => stk[k].jump \in Own(stk)
    BY DEF Own
  <1>4. Distinct(longer)
    BY <1>1, <1>3 DEF Frame, Distinct
  <1>5. Loops(code, longer)
    BY <1>1 DEF Frame, Loops
  <1>6. Frame(code, longer, own)
    BY <1>1, <1>2, <1>4, <1>5 DEF Frame
  <1> QED BY <1>6 DEF longer

\* Without its innermost activation the stack owns one jump less, if that
\* activation owned one.
LEMMA FramePop ==
  ASSUME NEW code, NEW f \in Seq(Activation), NEW a \in Activation, NEW own,
         Frame(code, Append(f, a), own)
  PROVE  /\ Frame(code, f, own)
         /\ Owns(a) => a.jump \in own \ Own(f)
         /\ a.site = "while pred" => a.start <= Len(code)
         /\ a.site = "while body" => a.start <= a.jump /\ code[a.jump + 1].op = "Jof"
  <1> DEFINE longer == Append(f, a)
             n == Len(f) + 1
  <1>1. /\ DOMAIN longer = DOMAIN f \cup {n}
        /\ n \notin DOMAIN f
        /\ \A k \in DOMAIN f : longer[k] = f[k]
        /\ longer[n] = a
    BY Longer
  <1>2. Own(longer) = Own(f) \cup (IF Owns(a) THEN {a.jump} ELSE {})
    BY OwnAppend
  <1>3. Frame(code, longer, own)
    OBVIOUS
  <1> HIDE DEF longer, n
  <1>4. Distinct(f)
    BY <1>1, <1>3 DEF Frame, Distinct
  <1>5. Loops(code, f)
    BY <1>1, <1>3 DEF Frame, Loops
  <1>6. Frame(code, f, own)
    BY <1>2, <1>3, <1>4, <1>5 DEF Frame
  <1>7. ASSUME Owns(a) PROVE a.jump \in own \ Own(f)
    <2>1. a.jump \in own
      BY <1>2, <1>3, <1>7 DEF Frame
    <2>2. ASSUME a.jump \in Own(f) PROVE FALSE
      <3>1. PICK k \in DOMAIN f : Owns(f[k]) /\ f[k].jump = a.jump
        BY <2>2 DEF Own
      <3>2. k # n /\ k \in DOMAIN longer /\ n \in DOMAIN longer
        BY <1>1, <3>1
      <3>3. longer[k] = f[k] /\ longer[n] = a
        BY <1>1, <3>1
      <3> QED BY <1>3, <1>7, <3>1, <3>2, <3>3 DEF Frame, Distinct
    <2> QED BY <2>1, <2>2
  <1>8. n \in DOMAIN longer /\ longer[n] = a
    BY <1>1
  <1>9. /\ a.site = "while pred" => a.start <= Len(code)
        /\ a.site = "while body" => a.start <= a.jump /\ code[a.jump + 1].op = "Jof"
    BY <1>3, <1>8 DEF Frame, Loops
  <1> QED BY <1>6, <1>7, <1>9

\* The only jumps to be patched are those of the waiting activations.
Settled(code, stk) == Frame(code, stk, Own(stk))

LEMMA SettledAppend ==
  ASSUME NEW code, NEW stk, Settled(code, stk),
         NEW i \in Instruction, i.op \notin Jumps
  PROVE  Settled(Append(code, i), stk)
  BY FrameAppend DEF Settled

LEMMA SettledCall ==
  ASSUME NEW code, NEW stk, Settled(code, stk),
         NEW a \in Activation, a.site \notin PatchSites,
         a.site = "while pred" => a.start <= Len(code)
  PROVE  Settled(code, Append(stk, a))
  <1>1. Frame(code, stk, Own(stk)) /\ stk \in Seq(Activation)
    BY DEF Settled, Frame
  <1>2. ~Owns(a) /\ a.site # "while body"
    BY DEF Owns, PatchSites
  <1>3. Frame(code, Append(stk, a), Own(stk))
    BY <1>1, <1>2, FramePush
  <1>4. Own(Append(stk, a)) = Own(stk)
    BY <1>1, <1>2, OwnAppend
  <1> QED BY <1>3, <1>4 DEF Settled

LEMMA SettledOwner ==
  ASSUME NEW code, NEW stk, NEW a \in Activation,
         Owns(a), a.jump \notin Own(stk),
         Frame(code, stk, Own(stk) \cup {a.jump}),
         a.site = "while body" => a.start <= a.jump /\ code[a.jump + 1].op = "Jof"
  PROVE  Settled(code, Append(stk, a))
  <1>1. a.site # "while pred" /\ stk \in Seq(Activation)
    BY DEF Owns, PatchSites, Frame
  <1>2. Frame(code, Append(stk, a), Own(stk) \cup {a.jump})
    BY <1>1, FramePush
  <1>3. Own(Append(stk, a)) = Own(stk) \cup {a.jump}
    BY <1>1, OwnAppend
  <1> QED BY <1>2, <1>3 DEF Settled

\* What a call of compile may assume.
LEMMA Chosen ==
  ASSUME IInv, NEW kind, Node(kind)
  PROVE  /\ fuel' \in 0 .. MaxNodes
         /\ plain' \in BOOLEAN
         /\ Settled(instructions, stack)
         /\ instructions \in Seq(Instruction)
         /\ stack \in Seq(Activation)
  <1>1. fuel' \in 0 .. MaxNodes
    BY CompilerAssumption DEF Node, IInv, TypeOK
  <1>2. plain' \in BOOLEAN
    BY DEF Node
  <1>3. Settled(instructions, stack)
    BY DEF Node, IInv, Settled
  <1> QED BY <1>1, <1>2, <1>3 DEF IInv, TypeOK

\* What an activation may assume once its operand is compiled.
LEMMA Resumed ==
  ASSUME IInv, NEW site, Resume(site)
  PROVE  /\ fuel' \in 0 .. MaxNodes
         /\ plain' \in BOOLEAN
         /\ instructions \in Seq(Instruction)
         /\ top \in Activation
         /\ top.site = site
         /\ callers \in Seq(Activation)
         /\ site \notin PatchSites => Settled(instructions, callers)
         /\ site \in PatchSites =>
              /\ Frame(instructions, callers, Own(callers) \cup {top.jump})
              /\ top.jump \notin Own(callers)
         /\ site = "while pred" => top.start <= Len(instructions)
         /\ site = "while body" =>
              top.start <= top.jump /\ instructions[top.jump + 1].op = "Jof"
  <1>1. /\ fuel' \in 0 .. MaxNodes
        /\ plain' \in BOOLEAN
        /\ instructions \in Seq(Instruction)
        /\ stack \in Seq(Activation)
        /\ stack # <<>>
        /\ top.site = site
        /\ Frame(instructions, stack, Own(stack))
    BY DEF Resume, IInv, TypeOK
  <1>2. /\ top \in Activation
        /\ callers \in Seq(Activation)
        /\ stack = Append(callers, top)
    BY <1>1 DEF top, callers
  <1>3. Owns(top) <=> site \in PatchSites
    BY <1>1 DEF Owns
  <1> HIDE DEF top, callers
  <1>4. Frame(instructions, Append(callers, top), Own(stack))
    BY <1>1, <1>2
  <1>5. /\ Frame(instructions, callers, Own(stack))
        /\ Owns(top) => top.jump \in Own(stack) \ Own(callers)
        /\ top.site = "while pred" => top.start <= Len(instructions)
        /\ top.site = "while body" =>
             top.start <= top.jump /\ instructions[top.jump + 1].op = "Jof"
    BY <1>2, <1>4, FramePop
  <1>6. Own(stack) = Own(callers) \cup (IF Owns(top) THEN {top.jump} ELSE {})
    BY <1>2, OwnAppend
  <1>7. site \notin PatchSites => Settled(instructions, callers)
    BY <1>3, <1>5, <1>6 DEF Settled
  <1>8. site \in PatchSites =>
          /\ Frame(instructions, callers, Own(callers) \cup {top.jump})
          /\ top.jump \notin Own(callers)
    BY <1>3, <1>5, <1>6
  <1> QED BY <1>1, <1>2, <1>5, <1>7, <1>8

LEMMA ResumedPlain ==
  ASSUME IInv, NEW site, Resume(site), site \notin PatchSites
  PROVE  Settled(instructions, callers)
  BY Resumed

\* What a step that does not end the compilation has to show.
LEMMA Working ==
  ASSUME fuel' \in 0 .. MaxNodes, plain' \in BOOLEAN,
         mode' \in {"compile", "return"}, Settled(instructions', stack')
  PROVE  IInv'
  <1>1. instructions' \in Seq(Instruction) /\ stack' \in Seq(Activation)
    BY DEF Settled, Frame
  <1>2. TypeOK'
    BY <1>1 DEF TypeOK
  <1>3. (mode \in {"compile", "return"} => Frame(instructions, stack, Own(stack)))'
    BY DEF Settled
  <1>4. JumpsLand'
    BY DEF JumpsLand
  <1> QED BY <1>2, <1>3, <1>4 DEF IInv

LEMMA Failing ==
  ASSUME IInv, fuel' \in 0 .. MaxNodes, plain' \in BOOLEAN, Fail
  PROVE  IInv'
  <1>1. mode' = "error" /\ UNCHANGED <<instructions, stack>>
    BY DEF Fail
  <1>2. TypeOK'
    BY <1>1 DEF IInv, TypeOK
  <1>3. (mode \in {"compile", "return"} => Frame(instructions, stack, Own(stack)))'
    BY <1>1
  <1>4. JumpsLand'
    BY <1>1 DEF JumpsLand
  <1> QED BY <1>2, <1>3, <1>4 DEF IInv

\* The activations of the code.
LEMMA AtType ==
  ASSUME NEW site \in Sites
  PROVE  At(site) \in Activation /\ At(site).site = site
  BY DEF At, Activation

LEMMA AmendJump ==
  ASSUME NEW a \in Activation, NEW jump \in Nat, NEW start \in Nat
  PROVE  /\ [a EXCEPT !.jump = jump] \in Activation
         /\ [a EXCEPT !.jump = jump].site = a.site
         /\ [a EXCEPT !.jump = jump].jump = jump
         /\ [a EXCEPT !.start = start] \in Activation
         /\ [a EXCEPT !.start = start].site = a.site
         /\ [a EXCEPT !.start = start].start = start
  BY DEF Activation

\* The activation that waits for the body of a function.
FunAt(jump, start) == [At("fun") EXCEPT !.jump = jump, !.start = start]

LEMMA FunAtType ==
  ASSUME NEW jump \in Nat, NEW start \in Nat
  PROVE  /\ FunAt(jump, start) \in Activation
         /\ FunAt(jump, start).site = "fun"
         /\ FunAt(jump, start).jump = jump
         /\ FunAt(jump, start).start = start
  <1> DEFINE a == At("fun")
  <1>1. a \in Activation /\ a.site = "fun"
    BY AtType DEF Sites
  <1> HIDE DEF a
  <1>2. /\ [a EXCEPT !.jump = jump, !.start = start] \in Activation
        /\ [a EXCEPT !.jump = jump, !.start = start].site = "fun"
        /\ [a EXCEPT !.jump = jump, !.start = start].jump = jump
        /\ [a EXCEPT !.jump = jump, !.start = start].start = start
    BY <1>1 DEF Activation
  <1> QED BY <1>2 DEF a, FunAt

\* The activation that waits for the body of a loop.
LoopAt(start, jump) == [At("while body") EXCEPT !.start = start, !.jump = jump]

LEMMA LoopAtType ==
  ASSUME NEW start \in Nat, NEW jump \in Nat
  PROVE  /\ LoopAt(start, jump) \in Activation
         /\ LoopAt(start, jump).site = "while body"
         /\ LoopAt(start, jump).start = start
         /\ LoopAt(start, jump).jump = jump
  <1> DEFINE a == At("while body")
  <1>1. a \in Activation /\ a.site = "while body"
    BY AtType DEF Sites
  <1> HIDE DEF a
  <1>2. /\ [a EXCEPT !.start = start, !.jump = jump] \in Activation
        /\ [a EXCEPT !.start = start, !.jump = jump].site = "while body"
        /\ [a EXCEPT !.start = start, !.jump = jump].start = start
        /\ [a EXCEPT !.start = start, !.jump = jump].jump = jump
    BY <1>1 DEF Activation
  <1> QED BY <1>2 DEF a, LoopAt

LEMMA AmendArguments ==
  ASSUME NEW a \in Activation, NEW arity \in Nat, NEW left \in Nat
  PROVE  /\ [a EXCEPT !.arity = arity, !.left = left] \in Activation
         /\ [a EXCEPT !.arity = arity, !.left = left].site = a.site
         /\ [a EXCEPT !.left = left] \in Activation
         /\ [a EXCEPT !.left = left].site = a.site
  BY DEF Activation

LEMMA AmendScan ==
  ASSUME NEW a \in Activation, NEW declares \in {"no", "may", "must"}
  PROVE  /\ [a EXCEPT !.declares = declares] \in Activation
         /\ [a EXCEPT !.declares = declares].site = a.site
         /\ [a EXCEPT !.has_locals = TRUE] \in Activation
         /\ [a EXCEPT !.has_locals = TRUE].site = a.site
  BY DEF Activation

-----------------------------------------------------------------------------
(* Steps that neither add nor patch a jump *)

Plain(a) == a \in Activation /\ a.site \notin PatchSites \cup {"while pred"}

Quiet(i) == i \in Instruction /\ i.op \notin Jumps

\* The code is left alone, or one or two instructions are added that do not
\* jump.
Adds ==
  \/ instructions' = instructions
  \/ \E i : Quiet(i) /\ instructions' = Append(instructions, i)
  \/ \E i, j : Quiet(i) /\ Quiet(j) /\ instructions' = instructions \o <<i, j>>

LEMMA AddsSettled ==
  ASSUME NEW stk, Settled(instructions, stk), Adds
  PROVE  Settled(instructions', stk)
  <1>1. CASE instructions' = instructions
    BY <1>1
  <1>2. ASSUME NEW i, Quiet(i), instructions' = Append(instructions, i)
        PROVE  Settled(instructions', stk)
    BY <1>2, SettledAppend DEF Quiet
  <1>3. ASSUME NEW i, NEW j, Quiet(i), Quiet(j), instructions' = instructions \o <<i, j>>
        PROVE  Settled(instructions', stk)
    <2>1. instructions' = Append(Append(instructions, i), j)
      BY <1>3, ConcatTwo DEF Quiet, Settled, Frame
    <2>2. Settled(Append(instructions, i), stk)
      BY <1>3, SettledAppend DEF Quiet
    <2>3. Settled(Append(Append(instructions, i), j), stk)
      BY <1>3, <2>2, SettledAppend DEF Quiet
    <2> QED BY <2>1, <2>3
  <1> QED BY <1>1, <1>2, <1>3 DEF Adds

LEMMA NodeCalls ==
  ASSUME IInv, NEW kind, Node(kind), NEW a, Plain(a), Call(a), Adds
  PROVE  IInv'
  <1>1. /\ fuel' \in 0 .. MaxNodes /\ plain' \in BOOLEAN
        /\ Settled(instructions, stack)
    BY Chosen
  <1>2. Settled(instructions', stack)
    BY <1>1, AddsSettled
  <1>3. Settled(instructions', Append(stack, a))
    BY <1>2, SettledCall DEF Plain
  <1>4. stack' = Append(stack, a) /\ mode' = "compile"
    BY DEF Call
  <1> QED BY <1>1, <1>3, <1>4, Working

LEMMA NodeReturns ==
  ASSUME IInv, NEW kind, Node(kind), Return, Adds
  PROVE  IInv'
  <1>1. /\ fuel' \in 0 .. MaxNodes /\ plain' \in BOOLEAN
        /\ Settled(instructions, stack)
    BY Chosen
  <1>2. Settled(instructions', stack)
    BY <1>1, AddsSettled
  <1>3. stack' = stack /\ mode' = "return"
    BY DEF Return
  <1> QED BY <1>1, <1>2, <1>3, Working

LEMMA ResumeContinues ==
  ASSUME IInv, NEW site, Resume(site), site \notin PatchSites,
         NEW a, Plain(a), Continue(a), Adds
  PROVE  IInv'
  <1>1. /\ fuel' \in 0 .. MaxNodes /\ plain' \in BOOLEAN
        /\ Settled(instructions, callers)
    BY Resumed
  <1>2. Settled(instructions', callers)
    BY <1>1, AddsSettled
  <1>3. Settled(instructions', Append(callers, a))
    BY <1>2, SettledCall DEF Plain
  <1>4. stack' = Append(callers, a) /\ mode' = "compile"
    BY DEF Continue
  <1> QED BY <1>1, <1>3, <1>4, Working

LEMMA ResumeFinishes ==
  ASSUME IInv, NEW site, Resume(site), site \notin PatchSites, Finish, Adds
  PROVE  IInv'
  <1>1. /\ fuel' \in 0 .. MaxNodes /\ plain' \in BOOLEAN
        /\ Settled(instructions, callers)
    BY Resumed
  <1>2. Settled(instructions', callers)
    BY <1>1, AddsSettled
  <1>3. stack' = callers /\ mode' = "return"
    BY DEF Finish
  <1> QED BY <1>1, <1>2, <1>3, Working

LEMMA PlainAt ==
  ASSUME NEW site \in Sites, site \notin PatchSites \cup {"while pred"}
  PROVE  Plain(At(site))
  BY AtType DEF Plain

LEMMA QuietInstr ==
  ASSUME NEW op \in Opcodes, op \notin Jumps
  PROVE  Quiet(Instr(op))
  BY InstrType DEF Quiet

\* addInstr of an opcode that does not jump.
LEMMA AddsInstr ==
  ASSUME NEW op \in Opcodes, op \notin Jumps, addInstr(op)
  PROVE  Adds
  BY QuietInstr DEF Adds, addInstr

LEMMA ValuesStep ==
  ASSUME IInv, Values
  PROVE  IInv'
  <1> USE DEF Sites, Opcodes, PatchSites
  <1>1. ASSUME Lit PROVE IInv'
    <2>1. Node("lit") /\ addInstr("Ldc") /\ Return
      BY <1>1 DEF Lit
    <2>2. Adds
      BY <2>1, AddsInstr
    <2> QED BY <2>1, <2>2, NodeReturns
  <1>2. ASSUME Nam PROVE IInv'
    <2>1. Node("nam") /\ addInstr("Ld") /\ Return
      BY <1>2 DEF Nam
    <2>2. Adds
      BY <2>1, AddsInstr
    <2> QED BY <2>1, <2>2, NodeReturns
  <1>3. ASSUME compileBinaryOp PROVE IInv'
    <2>1. PICK kind : Node(kind)
      BY <1>3 DEF compileBinaryOp
    <2>2. Call(At("binary first")) /\ Adds
      BY <1>3 DEF compileBinaryOp, Adds
    <2>3. Plain(At("binary first"))
      BY PlainAt
    <2> QED BY <2>1, <2>2, <2>3, NodeCalls
  <1>4. ASSUME BinaryFirst PROVE IInv'
    <2>1. Resume("binary first") /\ Continue(At("binary second")) /\ Adds
      BY <1>4 DEF BinaryFirst, Adds
    <2>2. Plain(At("binary second"))
      BY PlainAt
    <2> QED BY <2>1, <2>2, ResumeContinues
  <1>5. ASSUME BinarySecond PROVE IInv'
    <2>1. Resume("binary second") /\ addInstr("Binop") /\ Finish
      BY <1>5 DEF BinarySecond
    <2>2. Adds
      BY <2>1, AddsInstr
    <2> QED BY <2>1, <2>2, ResumeFinishes
  <1>6. ASSUME compileUnaryOp PROVE IInv'
    <2>1. PICK kind : Node(kind)
      BY <1>6 DEF compileUnaryOp
    <2>2. Call(At("unary")) /\ Adds
      BY <1>6 DEF compileUnaryOp, Adds
    <2>3. Plain(At("unary"))
      BY PlainAt
    <2> QED BY <2>1, <2>2, <2>3, NodeCalls
  <1>7. ASSUME UnaryFirst PROVE IInv'
    <2>1. Resume("unary") /\ addInstr("Unop") /\ Finish
      BY <1>7 DEF UnaryFirst
    <2>2. Adds
      BY <2>1, AddsInstr
    <2> QED BY <2>1, <2>2, ResumeFinishes
  <1>8. ASSUME TypeCast PROVE IInv'
    <2>1. Node("type_cast") /\ Call(At("cast")) /\ Adds
      BY <1>8 DEF TypeCast, Adds
    <2>2. Plain(At("cast"))
      BY PlainAt
    <2> QED BY <2>1, <2>2, NodeCalls
  <1>9. ASSUME CastFirst PROVE IInv'
    <2>1. Resume("cast") /\ addInstr("Binop") /\ Finish
      BY <1>9 DEF CastFirst
    <2>2. Adds
      BY <2>1, AddsInstr
    <2> QED BY <2>1, <2>2, ResumeFinishes
  <1>10. ASSUME App PROVE IInv'
    <2>1. Node("app")
      BY <1>10 DEF App
    <2>2. CASE instructions' = instructions \o <<Instr("Ld"), Instr("Call")>> /\ Return
      <3>1. Quiet(Instr("Ld")) /\ Quiet(Instr("Call"))
        BY QuietInstr
      <3>2. Adds
        BY <2>2, <3>1 DEF Adds
      <3> QED BY <2>1, <2>2, <3>2, NodeReturns
    <2>3. ASSUME NEW arity \in 1 .. MaxArgs, addInstr("Ld"),
                 Call([At("app") EXCEPT !.arity = arity, !.left = arity - 1])
          PROVE  IInv'
      <3>1. Adds
        BY <2>3, AddsInstr
      <3>2. At("app") \in Activation /\ At("app").site = "app"
        BY AtType
      <3>3. arity \in Nat /\ arity - 1 \in Nat
        BY CompilerAssumption
      <3>4. Plain([At("app") EXCEPT !.arity = arity, !.left = arity - 1])
        <4> DEFINE a == At("app")  left == arity - 1
        <4>1. a \in Activation /\ a.site = "app" /\ left \in Nat
          BY <3>2, <3>3
        <4> HIDE DEF a, left
        <4>2. Plain([a EXCEPT !.arity = arity, !.left = left])
          BY <3>3, <4>1, AmendArguments DEF Plain
        <4> QED BY <4>2 DEF a, left
      <3> QED BY <2>1, <2>3, <3>1, <3>4, NodeCalls
    <2> QED BY <1>10, <2>2, <2>3 DEF App
  <1>11. ASSUME AppArgument PROVE IInv'
    <2>1. Resume("app")
      BY <1>11 DEF AppArgument
    <2>2. top \in Activation /\ top.site = "app"
      BY <2>1, Resumed
    <2> DEFINE a == [top EXCEPT !.left = top.left - 1]
               i == [op |-> "Call", arg |-> top.arity]
    <2>3. CASE top.left > 0
      <3>1. Continue(a) /\ Adds
        BY <1>11, <2>3 DEF AppArgument, Adds
      <3>2. top.left - 1 \in Nat
        <4> DEFINE left == top.left
        <4>1. left \in Nat /\ left > 0
          BY <2>2, <2>3 DEF Activation
        <4> HIDE DEF left
        <4>2. left - 1 \in Nat
          BY <4>1
        <4> QED BY <4>2 DEF left
      <3>3. Plain(a)
        <4> DEFINE t == top  left == t.left - 1
        <4>1. t \in Activation /\ t.site = "app" /\ left \in Nat
          BY <2>2, <3>2
        <4> HIDE DEF t, left
        <4>2. Plain([t EXCEPT !.left = left])
          BY <4>1, AmendArguments DEF Plain
        <4> QED BY <4>2 DEF t, left
      <3> HIDE DEF a
      <3> QED BY <2>1, <3>1, <3>3, ResumeContinues
    <2>4. CASE ~(top.left > 0)
      <3>1. instructions' = Append(instructions, i) /\ Finish
        BY <1>11, <2>4 DEF AppArgument
      <3>2. Quiet(i)
        BY <2>2 DEF Quiet, Activation, Instruction
      <3>3. Adds
        BY <3>1, <3>2 DEF Adds
      <3> QED BY <2>1, <3>1, <3>3, ResumeFinishes
    <2> QED BY <2>3, <2>4
  <1> QED
    BY <1>1, <1>2, <1>3, <1>4, <1>5, <1>6, <1>7, <1>8, <1>9, <1>10, <1>11
    DEF Values

\* The statements that may follow.
LEMMA NextStatementPlain ==
  ASSUME NEW declares \in {"no", "may", "must"}, NEW nodes,
         NEW statement \in NextStatement(declares, nodes)
  PROVE  Plain(statement)
  <1> DEFINE s == At("statement")  d == At("declaration")
  <1>1. /\ s \in Activation /\ s.site = "statement"
        /\ d \in Activation /\ d.site = "declaration"
    BY AtType DEF Sites
  <1>2. \/ statement = [s EXCEPT !.declares = declares]
        \/ statement = [d EXCEPT !.declares = "may"]
    BY DEF NextStatement
  <1> HIDE DEF s, d
  <1>3. Plain([s EXCEPT !.declares = declares])
    BY <1>1, AmendScan DEF Plain, PatchSites
  <1>4. Plain([d EXCEPT !.declares = "may"])
    BY <1>1, AmendScan DEF Plain, PatchSites
  <1> QED BY <1>2, <1>3, <1>4

LEMMA StatementsStep ==
  ASSUME IInv, Statements
  PROVE  IInv'
  <1> USE DEF Sites, Opcodes, PatchSites
  <1>1. ASSUME compileSequence PROVE IInv'
    <2>1. Node("seq")
      BY <1>1 DEF compileSequence
    <2>2. CASE addInstr("Ldc") /\ Return
      <3>1. Adds
        BY <2>2, AddsInstr
      <3> QED BY <2>1, <2>2, <3>1, NodeReturns
    <2>3. ASSUME NEW statement \in NextStatement(Declares, fuel'),
                 Call(statement), UNCHANGED instructions
          PROVE  IInv'
      <3>1. Declares \in {"no", "may", "must"}
        BY DEF Declares
      <3>2. Plain(statement)
        BY <2>3, <3>1, NextStatementPlain
      <3>3. Adds
        BY <2>3 DEF Adds
      <3> QED BY <2>1, <2>3, <3>2, <3>3, NodeCalls
    <2> QED BY <1>1, <2>2, <2>3 DEF compileSequence
  <1>2. ASSUME SequenceStatement PROVE IInv'
    <2>1. PICK site \in {"statement", "declaration"} : Resume(site)
      BY <1>2 DEF SequenceStatement
    <2>2. CASE Finish /\ UNCHANGED instructions
      <3>1. Adds
        BY <2>2 DEF Adds
      <3> QED BY <2>1, <2>2, <3>1, ResumeFinishes
    <2>3. ASSUME NEW statement \in NextStatement(top.declares, fuel),
                 Continue(statement), addInstr("Pop")
          PROVE  IInv'
      <3>1. top.declares \in {"no", "may", "must"}
        BY <2>1, Resumed DEF Activation
      <3>2. Plain(statement)
        BY <2>3, <3>1, NextStatementPlain
      <3>3. Adds
        BY <2>3, AddsInstr
      <3> QED BY <2>1, <2>3, <3>2, <3>3, ResumeContinues
    <2> QED BY <1>2, <2>2, <2>3 DEF SequenceStatement
  <1>3. ASSUME compileBlock PROVE IInv'
    <2>1. Node("blk")
      BY <1>3 DEF compileBlock
    <2>2. Plain(At("blk")) /\ At("blk") \in Activation
      BY PlainAt, AtType
    <2>3. CASE addInstr("EnterScope") /\ Call([At("blk") EXCEPT !.has_locals = TRUE])
      <3>1. Adds
        BY <2>3, AddsInstr
      <3>2. Plain([At("blk") EXCEPT !.has_locals = TRUE])
        BY <2>2, AmendScan DEF Plain
      <3> QED BY <2>1, <2>3, <3>1, <3>2, NodeCalls
    <2>4. CASE Call(At("blk")) /\ UNCHANGED instructions
      <3>1. Adds
        BY <2>4 DEF Adds
      <3> QED BY <2>1, <2>2, <2>4, <3>1, NodeCalls
    <2> QED BY <1>3, <2>3, <2>4 DEF compileBlock
  <1>4. ASSUME BlockBody PROVE IInv'
    <2>1. Resume("blk") /\ Finish
      BY <1>4 DEF BlockBody
    <2>2. Adds
      <3>1. CASE addInstr("ExitScope")
        BY <3>1, AddsInstr
      <3>2. CASE UNCHANGED instructions
        BY <3>2 DEF Adds
      <3> QED BY <1>4, <3>1, <3>2 DEF BlockBody
    <2> QED BY <2>1, <2>2, ResumeFinishes
  <1>5. ASSUME compileVarDecl PROVE IInv'
    <2>1. Node("assign") /\ Call(At("assign")) /\ Adds
      BY <1>5 DEF compileVarDecl, Adds
    <2>2. Plain(At("assign"))
      BY PlainAt
    <2> QED BY <2>1, <2>2, NodeCalls
  <1>6. ASSUME VarDeclValue PROVE IInv'
    <2>1. Resume("assign") /\ addInstr("Assign") /\ Finish
      BY <1>6 DEF VarDeclValue
    <2>2. Adds
      BY <2>1, AddsInstr
    <2> QED BY <2>1, <2>2, ResumeFinishes
  <1>7. ASSUME Reassign PROVE IInv'
    <2>1. Node("reassign") /\ Call(At("reassign")) /\ Adds
      BY <1>7 DEF Reassign, Adds
    <2>2. Plain(At("reassign"))
      BY PlainAt
    <2> QED BY <2>1, <2>2, NodeCalls
  <1>8. ASSUME ReassignValue PROVE IInv'
    <2>1. Resume("reassign")
      BY <1>8 DEF ReassignValue
    <2>2. CASE addInstr("Assign") /\ Finish
      <3>1. Adds
        BY <2>2, AddsInstr
      <3> QED BY <2>1, <2>2, <3>1, ResumeFinishes
    <2>3. CASE Fail
      BY <2>1, <2>3, Resumed, Failing
    <2> QED BY <1>8, <2>2, <2>3 DEF ReassignValue
  <1>9. ASSUME CompoundAssign PROVE IInv'
    <2>1. Node("compound_assign")
      BY <1>9 DEF CompoundAssign
    <2>2. CASE addInstr("Ld") /\ Call(At("compound"))
      <3>1. Adds
        BY <2>2, AddsInstr
      <3>2. Plain(At("compound"))
        BY PlainAt
      <3> QED BY <2>1, <2>2, <3>1, <3>2, NodeCalls
    <2>3. CASE Fail
      BY <2>1, <2>3, Chosen, Failing
    <2> QED BY <1>9, <2>2, <2>3 DEF CompoundAssign
  <1>10. ASSUME CompoundValue PROVE IInv'
    <2>0. Resume("compound")
      BY <1>10 DEF CompoundValue
    <2>1. /\ instructions' = instructions \o <<Instr("Binop"), Instr("Assign")>>
          /\ Finish
      BY <1>10 DEF CompoundValue
    <2>2. Quiet(Instr("Binop")) /\ Quiet(Instr("Assign"))
      BY QuietInstr
    <2>3. Adds
      BY <2>1, <2>2 DEF Adds
    <2> QED BY <2>0, <2>1, <2>3, ResumeFinishes
  <1> QED
    BY <1>1, <1>2, <1>3, <1>4, <1>5, <1>6, <1>7, <1>8, <1>9, <1>10 DEF Statements

-----------------------------------------------------------------------------
(* Steps that add or patch jumps, on the code and the stack alone *)

\* The innermost jump to be patched is patched to the end of the code.
LEMMA PatchToEnd ==
  ASSUME NEW code, NEW stk, NEW b, Frame(code, stk, Own(stk) \cup {b}), b \notin Own(stk)
  PROVE  Settled(patchJump(code, b, Len(code)), stk)
  <1>1. b \in Nat /\ b < Len(code) /\ Len(code) \in Nat
    BY OwnAddr DEF Frame
  <1>2. Len(code) \in (b + 1) .. Len(code)
    <2> DEFINE n == Len(code)
    <2> HIDE DEF n
    <2>1. b \in Nat /\ b < n /\ n \in Nat
      BY <1>1 DEF n
    <2>2. n \in (b + 1) .. n
      BY <2>1
    <2> QED BY <2>2 DEF n
  <1>3. Frame(patchJump(code, b, Len(code)), stk, (Own(stk) \cup {b}) \ {b})
    BY <1>2, FramePatch
  <1>4. (Own(stk) \cup {b}) \ {b} = Own(stk)
    OBVIOUS
  <1> QED BY <1>3, <1>4 DEF Settled

\* A Jof or a Goto is added, for the next activation to patch.
LEMMA NewOwner ==
  ASSUME NEW code, NEW stk, Settled(code, stk),
         NEW i \in Instruction, i.op \in Jumps,
         NEW a \in Activation, Owns(a), a.jump = Len(code),
         a.site = "while body" => a.start <= Len(code) /\ i.op = "Jof",
         NEW q, Quiet(q)
  PROVE  /\ Settled(Append(code, i), Append(stk, a))
         /\ Settled(Append(Append(code, i), q), Append(stk, a))
  <1>1. /\ Frame(Append(code, i), stk, Own(stk) \cup {Len(code)})
        /\ Len(code) \notin Own(stk)
    BY FrameAppendJump DEF Settled
  <1>2. Append(code, i)[Len(code) + 1] = i
    BY AppendFacts DEF Settled, Frame
  <1>3. Settled(Append(code, i), Append(stk, a))
    BY <1>1, <1>2, SettledOwner
  <1>4. Settled(Append(Append(code, i), q), Append(stk, a))
    BY <1>3, SettledAppend DEF Quiet
  <1> QED BY <1>3, <1>4

\* compileFnDecl, from the end of the body on.
LEMMA FnDeclEndSettled ==
  ASSUME NEW code, NEW stk, NEW b, Frame(code, stk, Own(stk) \cup {b}), b \notin Own(stk),
         NEW addr \in Nat
  PROVE  Settled(FnDeclEnd(code, b, addr), stk)
  <1> DEFINE reset == Append(code, Instr("Reset"))
             ldf   == [op |-> "Ldf", arg |-> addr]
             patched == patchJump(reset, b, Len(reset))
  <1>1. code \in Seq(Instruction)
    BY DEF Frame
  <1>2. Quiet(Instr("Reset")) /\ Quiet(Instr("Assign")) /\ Quiet(ldf)
    <2>1. Quiet(ldf)
      BY DEF Quiet, Instruction, Opcodes
    <2>2. Quiet(Instr("Reset")) /\ Quiet(Instr("Assign"))
      BY QuietInstr DEF Opcodes
    <2> QED BY <2>1, <2>2
  <1>3. Len(reset) = Len(code) + 1
    BY <1>1, <1>2, AppendFacts DEF Quiet
  <1>4. Frame(reset, stk, Own(stk) \cup {b})
    BY <1>2, FrameAppend DEF Quiet
  <1>5. FnDeclEnd(code, b, addr) = patched \o <<ldf, Instr("Assign")>>
    BY <1>3 DEF FnDeclEnd
  <1> HIDE DEF reset, ldf
  <1>6. Settled(patched, stk)
    BY <1>4, PatchToEnd
  <1> HIDE DEF patched
  <1>7. patched \o <<ldf, Instr("Assign")>> = Append(Append(patched, ldf), Instr("Assign"))
    BY <1>2, <1>6, ConcatTwo DEF Quiet, Settled, Frame
  <1>8. Settled(Append(Append(patched, ldf), Instr("Assign")), stk)
    BY <1>2, <1>6, SettledAppend DEF Quiet
  <1> QED BY <1>5, <1>7, <1>8

\* The end of a conditional's consequence: its Jof is patched to the address
\* after the Goto that is added.
LEMMA ConsEnd ==
  ASSUME NEW code, NEW stk, NEW b, Frame(code, stk, Own(stk) \cup {b}), b \notin Own(stk)
  PROVE  LET added == Append(code, Instr("Goto"))
         IN  /\ Frame(patchJump(added, b, Len(code) + 1), stk, Own(stk) \cup {Len(code)})
             /\ Len(code) \notin Own(stk)
             /\ Len(patchJump(added, b, Len(code) + 1)) = Len(code) + 1
  <1> DEFINE added == Append(code, Instr("Goto"))
             n == Len(code)
             own == (Own(stk) \cup {b}) \cup {n}
  <1>1. Instr("Goto") \in Instruction /\ Instr("Goto").op \in Jumps
    BY InstrType DEF Opcodes
  <1>2. /\ Frame(added, stk, own)
        /\ n \notin Own(stk) \cup {b}
    BY <1>1, FrameAppendJump
  <1>3. code \in Seq(Instruction) /\ n \in Nat
    BY DEF Frame
  <1>4. Len(added) = n + 1 /\ added \in Seq(Instruction)
    BY <1>1, <1>3, AppendFacts
  <1>5. b \in Nat /\ b < n
    BY OwnAddr
  <1>6. b \in Addr(added)
    BY <1>2, OwnAddr
  <1> HIDE DEF added, n
  <1>7. n + 1 \in (b + 1) .. Len(added) /\ n + 1 \in Nat
    BY <1>3, <1>4, <1>5
  <1>8. Frame(patchJump(added, b, n + 1), stk, own \ {b})
    BY <1>2, <1>7, FramePatch
  <1>9. own \ {b} = Own(stk) \cup {n}
    BY <1>2
  <1>10. Len(patchJump(added, b, n + 1)) = n + 1
    BY <1>4, <1>6, <1>7, PatchFacts
  <1> QED BY <1>2, <1>8, <1>9, <1>10 DEF added, n

\* The right-hand side of a logical or: its Jof has been patched to the Pop.
LEMMA OrEnd ==
  ASSUME NEW code, NEW stk, Settled(code, stk)
  PROVE  LET n == Len(code)
             patched == patchJump(Append(Append(code, Instr("Jof")), Instr("Goto")), n, n + 2)
         IN  /\ Frame(Append(patched, Instr("Pop")), stk, Own(stk) \cup {n + 1})
             /\ n + 1 \notin Own(stk)
  <1> DEFINE n == Len(code)
             one == Append(code, Instr("Jof"))
             two == Append(one, Instr("Goto"))
             patched == patchJump(two, n, n + 2)
  <1>1. /\ Instr("Goto") \in Instruction /\ Instr("Goto").op \in Jumps
        /\ Instr("Jof") \in Instruction /\ Instr("Jof").op \in Jumps
        /\ Instr("Pop") \in Instruction /\ Instr("Pop").op \notin Jumps
    BY InstrType DEF Opcodes
  <1>2. /\ Frame(one, stk, Own(stk) \cup {n})
        /\ n \notin Own(stk)
    BY <1>1, FrameAppendJump DEF Settled
  <1>3. code \in Seq(Instruction) /\ n \in Nat
    BY DEF Settled, Frame
  <1>4. Len(one) = n + 1 /\ one \in Seq(Instruction)
    BY <1>1, <1>3, AppendFacts
  <1> HIDE DEF one, n
  <1>5. /\ Frame(two, stk, (Own(stk) \cup {n}) \cup {n + 1})
        /\ n + 1 \notin Own(stk) \cup {n}
    BY <1>1, <1>2, <1>4, FrameAppendJump
  <1>6. Len(two) = n + 2
    <2>1. Len(two) = (n + 1) + 1
      BY <1>1, <1>4, AppendFacts
    <2> QED BY <1>3, <2>1
  <1> HIDE DEF two
  <1>7. n + 2 \in (n + 1) .. Len(two)
    BY <1>3, <1>6
  <1>8. Frame(patched, stk, ((Own(stk) \cup {n}) \cup {n + 1}) \ {n})
    BY <1>2, <1>5, <1>7, FramePatch
  <1>9. ((Own(stk) \cup {n}) \cup {n + 1}) \ {n} = Own(stk) \cup {n + 1}
    BY <1>2, <1>3
  <1> HIDE DEF patched
  <1>10. Frame(Append(patched, Instr("Pop")), stk, Own(stk) \cup {n + 1})
    BY <1>1, <1>8, <1>9, FrameAppend
  <1> QED BY <1>5, <1>10 DEF patched, two, one, n

\* The end of a loop's body: the jump back lands on the condition, and the
\* Jof that leaves the loop is patched to what follows the jump back.
LEMMA LoopEnd ==
  ASSUME NEW code, NEW stk, NEW b, Frame(code, stk, Own(stk) \cup {b}), b \notin Own(stk),
         NEW s \in Nat, s <= b, code[b + 1].op = "Jof"
  PROVE  LET looped == code \o <<Instr("Pop"), [op |-> "Goto", arg |-> s]>>
         IN  Settled(Append(patchJump(looped, b, Len(looped)), Instr("Ldc")), stk)
  <1> DEFINE n == Len(code)
             goto == [op |-> "Goto", arg |-> s]
             popped == Append(code, Instr("Pop"))
             looped == Append(popped, goto)
             patched == patchJump(looped, b, n + 2)
  <1>1. /\ Quiet(Instr("Pop")) /\ Quiet(Instr("Ldc"))
        /\ goto \in Instruction /\ goto.op \in Jumps
        /\ goto.op = "Goto" /\ goto.arg = s
        /\ Instr("Pop").op = "Pop"
    <2>1. Quiet(Instr("Pop")) /\ Quiet(Instr("Ldc"))
      BY QuietInstr DEF Opcodes
    <2>2. goto \in Instruction /\ goto.op \in Jumps /\ goto.op = "Goto" /\ goto.arg = s
      BY DEF Instruction, Opcodes
    <2> QED BY <2>1, <2>2 DEF Instr
  <1>2. code \in Seq(Instruction) /\ n \in Nat
    BY DEF Frame
  <1>3. code \o <<Instr("Pop"), goto>> = looped
    BY <1>1, <1>2, ConcatTwo DEF Quiet
  <1> HIDE DEF goto
  <1>4. b \in Nat /\ b < n /\ b \in Addr(code)
    BY OwnAddr
  <1>5. /\ popped \in Seq(Instruction)
        /\ Len(popped) = n + 1
        /\ \A a \in Addr(code) : popped[a + 1] = code[a + 1]
        /\ popped[n + 1] = Instr("Pop")
        /\ Addr(popped) = Addr(code) \cup {n}
    BY <1>1, <1>2, AppendFacts DEF Quiet
  <1>6. Frame(popped, stk, Own(stk) \cup {b})
    BY <1>1, FrameAppend DEF Quiet
  <1> HIDE DEF popped, n
  <1>7. /\ looped \in Seq(Instruction)
        /\ Len(looped) = (n + 1) + 1
        /\ \A a \in Addr(popped) : looped[a + 1] = popped[a + 1]
        /\ looped[(n + 1) + 1] = goto
        /\ Addr(looped) = Addr(popped) \cup {n + 1}
    <2>1. goto \in Instruction /\ popped \in Seq(Instruction)
      BY <1>1, <1>5
    <2> DEFINE m == Len(popped)
    <2>2. /\ looped \in Seq(Instruction)
          /\ Len(looped) = m + 1
          /\ \A a \in Addr(popped) : looped[a + 1] = popped[a + 1]
          /\ looped[m + 1] = goto
          /\ Addr(looped) = Addr(popped) \cup {m}
      BY <2>1, AppendFacts
    <2>3. m = n + 1
      BY <1>5
    <2> HIDE DEF m, looped
    <2> QED BY <2>2, <2>3
  <1>8. /\ Frame(looped, stk, (Own(stk) \cup {b}) \cup {n + 1})
        /\ n + 1 \notin Own(stk) \cup {b}
    <2>1. goto \in Instruction /\ goto.op \in Jumps /\ Len(popped) = n + 1
      BY <1>1, <1>5
    <2> QED BY <1>6, <2>1, FrameAppendJump
  <1> HIDE DEF looped
  <1>9. Len(looped) = n + 2 /\ n + 2 \in (b + 1) .. Len(looped) /\ n + 2 \in Nat
    BY <1>2, <1>4, <1>7
  <1>10. b \in Addr(looped) /\ n \in Addr(looped) \ {b} /\ n + 1 \in Addr(looped) \ {b}
    BY <1>2, <1>4, <1>5, <1>7
  <1>11. /\ patched \in Seq(Instruction)
         /\ \A a \in Addr(looped) \ {b} : patched[a + 1] = looped[a + 1]
         /\ patched[b + 1].op = looped[b + 1].op
         /\ patched[b + 1].arg = n + 2
         /\ Len(patched) = Len(looped)
    BY <1>7, <1>9, <1>10, PatchFacts
  <1>12. Frame(patched, stk, ((Own(stk) \cup {b}) \cup {n + 1}) \ {b})
    BY <1>8, <1>9, FramePatch
  <1>13. ((Own(stk) \cup {b}) \cup {n + 1}) \ {b} = Own(stk) \cup {n + 1}
    BY <1>8
  <1> HIDE DEF patched
  <1>14. (Own(stk) \cup {n + 1}) \ {n + 1} = Own(stk)
    BY <1>8
  <1>15. Back(patched, Own(stk), n + 1)
    <2>1. patched[(n + 1) + 1] = goto
      BY <1>7, <1>10, <1>11
    <2>2. patched[n + 1] = Instr("Pop")
      BY <1>5, <1>7, <1>10, <1>11
    <2>3. patched[b + 1] = [op |-> "Jof", arg |-> n + 2]
      <3>1. patched[b + 1].op = "Jof"
        BY <1>4, <1>5, <1>7, <1>11
      <3>2. patched[b + 1] \in Instruction
        BY <1>2, <1>4, <1>9, <1>11
      <3> DEFINE x == patched[b + 1]
      <3>3. x \in Instruction /\ x.op = "Jof" /\ x.arg = n + 2
        BY <1>11, <3>1, <3>2
      <3> HIDE DEF x
      <3>4. x = [op |-> "Jof", arg |-> n + 2]
        BY <3>3 DEF Instruction
      <3> QED BY <3>4 DEF x
    <2>4. b \in s .. ((n + 1) - 1) /\ (n + 1) + 1 = n + 2 /\ n + 1 > 0
      BY <1>2, <1>4
    <2> QED BY <1>1, <2>1, <2>2, <2>3, <2>4 DEF Back
  <1>16. Frame(patched, stk, Own(stk))
    <2>1. n + 1 \in Own(stk) \cup {n + 1} /\ n + 1 \notin Own(stk)
      BY <1>8
    <2>2. Frame(patched, stk, Own(stk) \cup {n + 1})
      BY <1>12, <1>13
    <2> QED BY <1>14, <1>15, <2>1, <2>2, FrameDrop
  <1>17. Settled(Append(patched, Instr("Ldc")), stk)
    BY <1>1, <1>16, SettledAppend DEF Quiet, Settled
  <1> QED BY <1>3, <1>9, <1>17 DEF patched, goto

-----------------------------------------------------------------------------
(* Steps that add or patch jumps *)

\* An activation that adds a jump for the one that continues it.
LEMMA ResumeOwns ==
  ASSUME IInv, NEW site, Resume(site), site \notin PatchSites,
         NEW i \in Instruction, i.op \in Jumps, NEW q, Quiet(q),
         instructions' \in {Append(instructions, i), instructions \o <<i, q>>},
         NEW a \in Activation, Owns(a), a.jump = Len(instructions),
         a.site = "while body" => a.start <= Len(instructions) /\ i.op = "Jof",
         Continue(a)
  PROVE  IInv'
  <1>1. /\ fuel' \in 0 .. MaxNodes /\ plain' \in BOOLEAN
        /\ Settled(instructions, callers)
        /\ instructions \in Seq(Instruction)
    BY Resumed
  <1>2. /\ Settled(Append(instructions, i), Append(callers, a))
        /\ Settled(Append(Append(instructions, i), q), Append(callers, a))
    BY <1>1, NewOwner
  <1>3. instructions \o <<i, q>> = Append(Append(instructions, i), q)
    BY <1>1, ConcatTwo DEF Quiet
  <1>4. stack' = Append(callers, a) /\ mode' = "compile"
    BY DEF Continue
  <1>5. Settled(instructions', stack')
    BY <1>2, <1>3, <1>4
  <1> QED BY <1>1, <1>4, <1>5, Working

\* The activation that patches the jump it owns to the end of the code.
LEMMA ResumePatches ==
  ASSUME IInv, NEW site, Resume(site), site \in PatchSites,
         instructions' = patchJump(instructions, top.jump, nextInstrAddr), Finish
  PROVE  IInv'
  <1>1. /\ fuel' \in 0 .. MaxNodes /\ plain' \in BOOLEAN
        /\ Frame(instructions, callers, Own(callers) \cup {top.jump})
        /\ top.jump \notin Own(callers)
    BY Resumed
  <1>2. Settled(patchJump(instructions, top.jump, Len(instructions)), callers)
    BY <1>1, PatchToEnd
  <1>3. stack' = callers /\ mode' = "return"
    BY DEF Finish
  <1> QED BY <1>1, <1>2, <1>3, Working DEF nextInstrAddr

LEMMA ControlStep ==
  ASSUME IInv, Control
  PROVE  IInv'
  <1> USE DEF Sites, Opcodes, PatchSites
  <1>0. /\ Quiet(Instr("Pop")) /\ Quiet(Instr("Ldc")) /\ Quiet(Instr("Reset"))
        /\ Instr("Jof") \in Instruction /\ Instr("Jof").op = "Jof"
        /\ Instr("Goto") \in Instruction /\ Instr("Goto").op = "Goto"
        /\ Instr("Pop") \in Instruction /\ Instr("Pop").op = "Pop"
    BY QuietInstr, InstrType
  <1>1. ASSUME compileConditional PROVE IInv'
    <2>1. Node("cond") /\ Call(At("cond pred")) /\ Adds
      BY <1>1 DEF compileConditional, Adds
    <2>2. Plain(At("cond pred"))
      BY PlainAt
    <2> QED BY <2>1, <2>2, NodeCalls
  <1>2. ASSUME CondPred PROVE IInv'
    <2> DEFINE c == At("cond cons")
               n == Len(instructions)
               a == [c EXCEPT !.jump = n]
    <2>1. Resume("cond pred") /\ addInstr("Jof") /\ Continue(a)
      BY <1>2 DEF CondPred, nextInstrAddr
    <2>2. n \in Nat
      BY DEF IInv, TypeOK
    <2>3. c \in Activation /\ c.site = "cond cons"
      BY AtType
    <2> HIDE DEF c
    <2>4. a \in Activation /\ Owns(a) /\ a.jump = n /\ a.site # "while body"
      <3> HIDE DEF n
      <3> QED BY <2>2, <2>3, AmendJump DEF Owns
    <2> HIDE DEF a
    <2>5. instructions' \in {Append(instructions, Instr("Jof")),
                             instructions \o <<Instr("Jof"), Instr("Pop")>>}
      BY <2>1 DEF addInstr
    <2> QED BY <1>0, <2>1, <2>4, <2>5, ResumeOwns
  <1>3. ASSUME CondAlt PROVE IInv'
    <2>1. Resume("cond alt")
      BY <1>3 DEF CondAlt
    <2>2. instructions' = patchJump(instructions, top.jump, nextInstrAddr) /\ Finish
      BY <1>3 DEF CondAlt
    <2> QED BY <2>1, <2>2, ResumePatches
  <1>4. ASSUME ReturnStatement PROVE IInv'
    <2>1. Node("return_statement")
      BY <1>4 DEF ReturnStatement
    <2>2. CASE Call(At("return")) /\ UNCHANGED instructions
      <3>1. Adds
        BY <2>2 DEF Adds
      <3>2. Plain(At("return"))
        BY PlainAt
      <3> QED BY <2>1, <2>2, <3>1, <3>2, NodeCalls
    <2>3. CASE instructions' = instructions \o <<Instr("Ldc"), Instr("Reset")>> /\ Return
      <3>1. Adds
        BY <1>0, <2>3 DEF Adds
      <3> QED BY <2>1, <2>3, <3>1, NodeReturns
    <2> QED BY <1>4, <2>2, <2>3 DEF ReturnStatement
  <1>5. ASSUME ReturnBody PROVE IInv'
    <2>1. Resume("return") /\ addInstr("Reset") /\ Finish
      BY <1>5 DEF ReturnBody
    <2>2. Adds
      BY <2>1, AddsInstr
    <2> QED BY <2>1, <2>2, ResumeFinishes
  <1>6. ASSUME Logic PROVE IInv'
    <2>1. Node("logic") /\ Adds
      BY <1>6 DEF Logic, Adds
    <2>2. PICK site \in {"and first", "or first"} : Call(At(site))
      BY <1>6 DEF Logic
    <2>3. Plain(At(site))
      BY <2>2, PlainAt
    <2> QED BY <2>1, <2>2, <2>3, NodeCalls
  <1>7. ASSUME AndFirst PROVE IInv'
    <2> DEFINE c == At("and second")
               n == Len(instructions)
               a == [c EXCEPT !.jump = n]
    <2>1. /\ Resume("and first")
          /\ instructions' = instructions \o <<Instr("Jof"), Instr("Pop")>>
          /\ Continue(a)
      BY <1>7 DEF AndFirst, nextInstrAddr
    <2>2. n \in Nat
      BY DEF IInv, TypeOK
    <2>3. c \in Activation /\ c.site = "and second"
      BY AtType
    <2> HIDE DEF c
    <2>4. a \in Activation /\ Owns(a) /\ a.jump = n /\ a.site # "while body"
      <3> HIDE DEF n
      <3> QED BY <2>2, <2>3, AmendJump DEF Owns
    <2> HIDE DEF a
    <2>5. instructions' \in {Append(instructions, Instr("Jof")),
                             instructions \o <<Instr("Jof"), Instr("Pop")>>}
      BY <2>1
    <2> QED BY <1>0, <2>1, <2>4, <2>5, ResumeOwns
  <1>8. ASSUME LogicSecond PROVE IInv'
    <2>1. PICK site \in {"and second", "or second"} : Resume(site)
      BY <1>8 DEF LogicSecond
    <2>2. instructions' = patchJump(instructions, top.jump, nextInstrAddr) /\ Finish
      BY <1>8 DEF LogicSecond
    <2> QED BY <2>1, <2>2, ResumePatches
  <1>9. ASSUME WhileLoop PROVE IInv'
    <2> DEFINE c == At("while pred")
               n == Len(instructions)
               a == [c EXCEPT !.start = n]
    <2>1. Node("while_loop") /\ Call(a) /\ UNCHANGED instructions
      BY <1>9 DEF WhileLoop, nextInstrAddr
    <2>2. /\ fuel' \in 0 .. MaxNodes /\ plain' \in BOOLEAN
          /\ Settled(instructions, stack)
          /\ instructions \in Seq(Instruction)
      BY <2>1, Chosen
    <2>3. n \in Nat /\ n <= Len(instructions)
      <3>1. n \in Nat
        BY <2>2
      <3> HIDE DEF n
      <3>2. n <= n
        BY <3>1
      <3> QED BY <3>1, <3>2 DEF n
    <2>4. c \in Activation /\ c.site = "while pred"
      BY AtType
    <2> HIDE DEF c
    <2>5. a \in Activation /\ a.site = "while pred" /\ a.start = n
      <3> HIDE DEF n
      <3> QED BY <2>3, <2>4, AmendJump
    <2> HIDE DEF a, n
    <2>6. Settled(instructions, Append(stack, a))
      BY <2>2, <2>3, <2>5, SettledCall
    <2>7. stack' = Append(stack, a) /\ mode' = "compile"
      BY <2>1 DEF Call
    <2> QED BY <2>1, <2>2, <2>6, <2>7, Working
  <1>10. ASSUME WhilePred PROVE IInv'
    <2> DEFINE n == Len(instructions)
               s == top.start
               a == LoopAt(s, n)
    <2>1. Resume("while pred") /\ addInstr("Jof") /\ Continue(a)
      BY <1>10 DEF WhilePred, nextInstrAddr, LoopAt
    <2>2. n \in Nat /\ s \in Nat /\ s <= n
      <3>1. Resume("while pred")
        BY <2>1
      <3>2. top \in Activation /\ instructions \in Seq(Instruction)
        BY <3>1, Resumed
      <3>3. s <= n
        BY <3>1, Resumed
      <3>4. s \in Nat
        BY <3>2 DEF Activation
      <3>5. n \in Nat
        BY <3>2
      <3> QED BY <3>3, <3>4, <3>5
    <2> HIDE DEF s
    <2>3. /\ a \in Activation /\ a.site = "while body"
          /\ a.jump = n /\ a.start = s
      <3> HIDE DEF n
      <3> QED BY <2>2, LoopAtType
    <2> HIDE DEF a
    <2>4. a \in Activation /\ Owns(a) /\ a.jump = n /\ a.start = s
      BY <2>3 DEF Owns
    <2>5. instructions' \in {Append(instructions, Instr("Jof")),
                             instructions \o <<Instr("Jof"), Instr("Pop")>>}
      BY <2>1 DEF addInstr
    <2>6. a.start <= n
      BY <2>2, <2>4
    <2> DEFINE i == Instr("Jof")  q == Instr("Pop")
    <2>7. /\ i \in Instruction /\ i.op \in Jumps /\ Quiet(q)
          /\ a.site = "while body" => a.start <= Len(instructions) /\ i.op = "Jof"
      BY <1>0, <2>6
    <2>8. /\ instructions' \in {Append(instructions, i), instructions \o <<i, q>>}
          /\ a \in Activation /\ Owns(a) /\ a.jump = Len(instructions)
      BY <2>4, <2>5
    <2> HIDE DEF n, i, q
    <2> QED BY <2>1, <2>7, <2>8, ResumeOwns
  <1>11. ASSUME ContinueOrBreak PROVE IInv'
    <2>1. PICK kind : Node(kind)
      BY <1>11 DEF ContinueOrBreak
    <2>2. Fail
      BY <1>11 DEF ContinueOrBreak
    <2> QED BY <2>1, <2>2, Chosen, Failing
  <1>12. ASSUME FnBody PROVE IInv'
    <2>1. Resume("fun")
      BY <1>12 DEF FnBody
    <2>2. instructions' = FnDeclEnd(instructions, top.jump, top.start) /\ Finish
      BY <1>12 DEF FnBody
    <2>3. /\ fuel' \in 0 .. MaxNodes /\ plain' \in BOOLEAN
          /\ Frame(instructions, callers, Own(callers) \cup {top.jump})
          /\ top.jump \notin Own(callers)
          /\ top \in Activation
      BY <2>1, Resumed
    <2>4. top.start \in Nat
      BY <2>3 DEF Activation
    <2>5. Settled(instructions', callers)
      BY <2>2, <2>3, <2>4, FnDeclEndSettled
    <2>6. stack' = callers /\ mode' = "return"
      BY <2>2 DEF Finish
    <2> QED BY <2>3, <2>5, <2>6, Working
  <1>13. ASSUME WhileBody PROVE IInv'
    <2>1. Resume("while body")
      BY <1>13 DEF WhileBody
    <2>2. Finish
      BY <1>13 DEF WhileBody
    <2>3. LET looped == instructions \o <<Instr("Pop"), [op |-> "Goto", arg |-> top.start]>>
          IN  instructions' =
                Append(patchJump(looped, top.jump, Len(looped)), Instr("Ldc"))
      BY <1>13 DEF WhileBody
    <2>4. /\ fuel' \in 0 .. MaxNodes /\ plain' \in BOOLEAN
          /\ Frame(instructions, callers, Own(callers) \cup {top.jump})
          /\ top.jump \notin Own(callers)
          /\ top \in Activation
          /\ top.start <= top.jump
          /\ instructions[top.jump + 1].op = "Jof"
      BY <2>1, Resumed
    <2>5. top.start \in Nat
      BY <2>4 DEF Activation
    <2>6. Settled(instructions', callers)
      BY <2>3, <2>4, <2>5, LoopEnd
    <2>7. stack' = callers /\ mode' = "return"
      BY <2>2 DEF Finish
    <2> QED BY <2>4, <2>6, <2>7, Working
  <1>14. ASSUME CondCons PROVE IInv'
    <2> DEFINE n == Len(instructions)
               c == At("cond alt")
               a == [c EXCEPT !.jump = n]
               code == patchJump(Append(instructions, Instr("Goto")), top.jump, n + 1)
    <2>1. Resume("cond cons")
      BY <1>14 DEF CondCons
    <2>2. /\ fuel' \in 0 .. MaxNodes /\ plain' \in BOOLEAN
          /\ instructions \in Seq(Instruction)
          /\ callers \in Seq(Activation)
      BY <2>1, Resumed
    <2>3. /\ Frame(instructions, callers, Own(callers) \cup {top.jump})
          /\ top.jump \notin Own(callers)
      BY <2>1, Resumed
    <2>4. /\ Frame(code, callers, Own(callers) \cup {n})
          /\ n \notin Own(callers)
          /\ Len(code) = n + 1
      BY <2>3, ConsEnd
    <2>5. n \in Nat
      BY <2>2
    <2>6. CASE instructions' = code /\ Continue(a)
      <3>1. c \in Activation /\ c.site = "cond alt"
        BY AtType
      <3> HIDE DEF c, code
      <3>2. a \in Activation /\ Owns(a) /\ a.jump = n /\ a.site # "while body"
        <4> HIDE DEF n
        <4> QED BY <2>5, <3>1, AmendJump DEF Owns
      <3>3. stack' = Append(callers, a) /\ mode' = "compile"
        BY <2>6 DEF Continue
      <3> HIDE DEF a, n
      <3>4. Settled(code, Append(callers, a))
        BY <2>4, <3>2, SettledOwner
      <3> QED BY <2>2, <2>6, <3>3, <3>4, Working
    <2>7. CASE instructions' = patchJump(Append(code, Instr("Ldc")), n, n + 1 + 1) /\ Finish
      <3> DEFINE longer == Append(code, Instr("Ldc"))
      <3>1. Frame(longer, callers, Own(callers) \cup {n})
        <4> HIDE DEF code, n
        <4> QED BY <1>0, <2>4, FrameAppend DEF Quiet
      <3>2. Len(longer) = n + 1 + 1
        <4> HIDE DEF n
        <4>1. code \in Seq(Instruction) /\ Instr("Ldc") \in Instruction
          BY <1>0, <2>4 DEF Frame, Quiet
        <4> HIDE DEF code
        <4>2. Len(longer) = Len(code) + 1
          BY <4>1, AppendFacts
        <4> QED BY <2>4, <2>5, <4>2
      <3> HIDE DEF longer, n
      <3>3. Settled(patchJump(longer, n, n + 1 + 1), callers)
        BY <2>4, <3>1, <3>2, PatchToEnd
      <3>4. stack' = callers /\ mode' = "return"
        BY <2>7 DEF Finish
      <3> QED BY <2>2, <2>7, <3>3, <3>4, Working DEF longer
    <2> QED BY <1>14, <2>6, <2>7 DEF CondCons, nextInstrAddr
  <1>15. ASSUME OrFirst PROVE IInv'
    <2> DEFINE n == Len(instructions)
               c == At("or second")
               m == n + 1
               a == [c EXCEPT !.jump = m]
               both == instructions \o <<Instr("Jof"), Instr("Goto")>>
               code == Append(patchJump(both, n, n + 2), Instr("Pop"))
    <2>1. Resume("or first")
      BY <1>15 DEF OrFirst
    <2>2. instructions' = code /\ Continue(a)
      BY <1>15 DEF OrFirst, nextInstrAddr
    <2>3. /\ fuel' \in 0 .. MaxNodes /\ plain' \in BOOLEAN
          /\ instructions \in Seq(Instruction)
          /\ Settled(instructions, callers)
      <3>1. /\ fuel' \in 0 .. MaxNodes /\ plain' \in BOOLEAN
            /\ instructions \in Seq(Instruction)
        BY <2>1, Resumed
      <3>2. "or first" \notin PatchSites
        OBVIOUS
      <3>3. Settled(instructions, callers)
        <4> HIDE DEF PatchSites
        <4> QED BY <2>1, <3>2, ResumedPlain
      <3> QED BY <3>1, <3>3
    <2>4. both = Append(Append(instructions, Instr("Jof")), Instr("Goto"))
      BY <1>0, <2>3, ConcatTwo
    <2>5. /\ Frame(code, callers, Own(callers) \cup {m})
          /\ m \notin Own(callers)
      BY <2>3, <2>4, OrEnd
    <2>6. m \in Nat
      BY <2>3
    <2>7. c \in Activation /\ c.site = "or second"
      BY AtType
    <2> HIDE DEF c, code, m
    <2>8. a \in Activation /\ Owns(a) /\ a.jump = m /\ a.site # "while body"
      BY <2>6, <2>7, AmendJump DEF Owns
    <2>9. stack' = Append(callers, a) /\ mode' = "compile"
      BY <2>2 DEF Continue
    <2> HIDE DEF a
    <2>10. Settled(code, Append(callers, a))
      BY <2>5, <2>8, SettledOwner
    <2> QED BY <2>2, <2>3, <2>9, <2>10, Working
  <1>16. ASSUME compileFnDecl PROVE IInv'
    <2> DEFINE n == Len(instructions)
               code == Append(instructions, Instr("Goto"))
               a == FunAt(n, n + 1)
    <2>1. Node("fun")
      BY <1>16 DEF compileFnDecl
    <2>2. /\ fuel' \in 0 .. MaxNodes /\ plain' \in BOOLEAN
          /\ instructions \in Seq(Instruction)
          /\ Settled(instructions, stack)
      BY <2>1, Chosen
    <2>3. n \in Nat /\ n + 1 \in Nat
      BY <2>2
    <2>4. /\ Frame(code, stack, Own(stack) \cup {n})
          /\ n \notin Own(stack)
      BY <1>0, <2>2, FrameAppendJump DEF Settled
    <2>5. CASE instructions' = code /\ Call(a)
      <3>1. stack' = Append(stack, a) /\ mode' = "compile"
        BY <2>5 DEF Call
      <3> HIDE DEF n, code
      <3>2. a \in Activation /\ Owns(a) /\ a.jump = n /\ a.site # "while body"
        <4>1. a \in Activation /\ a.site = "fun" /\ a.jump = n
          BY <2>3, FunAtType
        <4> HIDE DEF a
        <4> QED BY <4>1 DEF Owns
      <3> HIDE DEF a
      <3>3. Settled(code, Append(stack, a))
        BY <2>4, <3>2, SettledOwner
      <3> QED BY <2>2, <2>5, <3>1, <3>3, Working
    <2>6. CASE instructions' = FnDeclEnd(Append(code, Instr("Ldc")), n, n + 1) /\ Return
      <3>1. stack' = stack /\ mode' = "return"
        BY <2>6 DEF Return
      <3> HIDE DEF n, code
      <3>2. Frame(Append(code, Instr("Ldc")), stack, Own(stack) \cup {n})
        BY <1>0, <2>4, FrameAppend DEF Quiet
      <3>3. Settled(FnDeclEnd(Append(code, Instr("Ldc")), n, n + 1), stack)
        BY <2>3, <2>4, <3>2, FnDeclEndSettled
      <3> QED BY <2>2, <2>6, <3>1, <3>3, Working
    <2> QED BY <1>16, <2>5, <2>6 DEF compileFnDecl, nextInstrAddr, FunAt
  <1> QED
    BY <1>1, <1>2, <1>3, <1>4, <1>5, <1>6, <1>7, <1>8, <1>9, <1>10, <1>11,
       <1>12, <1>13, <1>14, <1>15, <1>16
    DEF Control

-----------------------------------------------------------------------------
(* The end of the program, and the theorems *)

\* What JumpsLand says of the jump at a.
LandsIn(code, a) ==
  /\ code[a + 1].arg \in Addr(code)
  /\ \/ code[a + 1].arg > a
     \/ /\ code[a + 1].op = "Goto"
        /\ code[(a - 1) + 1].op = "Pop"
        /\ \E j \in code[a + 1].arg .. (a - 1) :
             code[j + 1] = [op |-> "Jof", arg |-> a + 1]

\* A program whose jumps are all patched, with an instruction added: every
\* jump lands within it.
LEMMA Landed ==
  ASSUME NEW code \in Seq(Instruction), Sound(code, {}),
         NEW i \in Instruction, i.op \notin Jumps,
         NEW longer, longer = Append(code, i),
         NEW a \in Addr(longer), longer[a + 1].op \in Jumps
  PROVE  LandsIn(longer, a)
  <1> USE DEF LandsIn
  <1> DEFINE n == Len(code)
  <1>1. /\ \A b \in Addr(code) : longer[b + 1] = code[b + 1]
        /\ longer[n + 1] = i
        /\ Addr(longer) = Addr(code) \cup {n}
    BY AppendFacts
  <1>2. a \in Addr(code) /\ longer[a + 1] = code[a + 1]
    BY <1>1
  <1>3. Lands(code, {}, a)
    BY <1>2 DEF Sound
  <1>4. n \in Nat /\ Addr(code) = 0 .. (n - 1) /\ Addr(longer) = 0 .. n
    BY <1>1 DEF Addr
  <1>5. code[a + 1] \in Instruction
    BY <1>2, <1>4
  <1> DEFINE t == code[a + 1].arg
  <1>6. t \in Nat /\ a \in 0 .. (n - 1) /\ longer[a + 1].arg = t
    BY <1>2, <1>4, <1>5 DEF Instruction
  <1>7. CASE t \in (a + 1) .. n
    <2> HIDE DEF t, n
    <2>1. t \in 0 .. n /\ t > a
      BY <1>4, <1>6, <1>7
    <2> QED BY <1>4, <1>6, <2>1
  <1>8. CASE Back(code, {}, a)
    <2>1. code[a + 1].op = "Goto" /\ a > 0 /\ code[a].op = "Pop"
      BY <1>8 DEF Back
    <2>2. PICK j \in t .. (a - 1) : code[j + 1] = [op |-> "Jof", arg |-> a + 1]
      BY <1>8 DEF Back
    <2> HIDE DEF t, n
    <2>3. /\ j \in Addr(code)
          /\ a - 1 \in Addr(code)
          /\ (a - 1) + 1 = a
          /\ t \in Addr(longer)
      BY <1>4, <1>6, <2>1, <2>2
    <2>4. longer[j + 1] = code[j + 1] /\ longer[(a - 1) + 1] = code[a]
      BY <1>1, <2>3
    <2> QED BY <1>2, <1>6, <2>1, <2>2, <2>3, <2>4
  <1> QED BY <1>3, <1>7, <1>8 DEF Lands

LEMMA ProgramStep ==
  ASSUME IInv, compileProgram
  PROVE  IInv'
  <1>1. /\ mode = "return" /\ stack = <<>>
        /\ instructions' = Append(instructions, Instr("Done"))
        /\ mode' = "done"
        /\ UNCHANGED <<stack, fuel, plain>>
    BY DEF compileProgram, addInstr
  <1>2. Quiet(Instr("Done"))
    BY QuietInstr DEF Opcodes
  <1>3. instructions \in Seq(Instruction) /\ Sound(instructions, {})
    <2>1. Frame(instructions, <<>>, Own(<<>>))
      BY <1>1 DEF IInv
    <2>2. Own(<<>>) = {}
      BY DEF Own
    <2> QED BY <2>1, <2>2 DEF Frame
  <1>4. instructions' \in Seq(Instruction)
    BY <1>1, <1>2, <1>3 DEF Quiet
  <1>5. TypeOK'
    BY <1>1, <1>4 DEF IInv, TypeOK
  <1>6. JumpsLand'
    <2> SUFFICES ASSUME NEW a \in Addresses', Code(a)'.op \in Jumps
                 PROVE  /\ Code(a)'.arg \in Addresses'
                        /\ Code(a)'.arg > a \/ JumpsBack(a)'
      BY DEF JumpsLand, Jumping
    <2>1. Addresses' = Addr(instructions')
      BY DEF Addresses, Addr
    <2>2. Code(a)' = instructions'[a + 1]
      BY DEF Code
    <2>3. a \in Addr(instructions') /\ instructions'[a + 1].op \in Jumps
      BY <2>1, <2>2
    <2>4. LandsIn(instructions', a)
      <3> DEFINE longer == instructions'
                 code == instructions
                 i == Instr("Done")
      <3>1. /\ code \in Seq(Instruction) /\ Sound(code, {})
            /\ i \in Instruction /\ i.op \notin Jumps
            /\ longer = Append(code, i)
            /\ a \in Addr(longer) /\ longer[a + 1].op \in Jumps
        BY <1>1, <1>2, <1>3, <2>3 DEF Quiet
      <3> HIDE DEF longer, i, code, Jumps
      <3>2. LandsIn(longer, a)
        BY <3>1, Landed
      <3> QED BY <3>2 DEF longer
    <2> QED BY <2>1, <2>4 DEF Code, JumpsBack, LandsIn
  <1> QED BY <1>1, <1>5, <1>6 DEF IInv

LEMMA InvariantInit ==
  ASSUME Init
  PROVE  IInv
  <1>1. TypeOK
    BY CompilerAssumption DEF Init, TypeOK
  <1>2. JumpsLand
    BY DEF Init, JumpsLand
  <1>3. Frame(instructions, stack, Own(stack))
    <2>1. instructions = <<>> /\ stack = <<>>
      BY DEF Init
    <2>2. Own(<<>>) = {}
      BY DEF Own
    <2>3. Sound(<<>>, {})
      BY DEF Sound, Addr
    <2>4. Distinct(<<>>) /\ Loops(<<>>, <<>>)
      BY DEF Distinct, Loops
    <2>5. <<>> \in Seq(Instruction) /\ <<>> \in Seq(Activation)
      OBVIOUS
    <2>6. Frame(<<>>, <<>>, {})
      BY <2>2, <2>3, <2>4, <2>5 DEF Frame
    <2> QED BY <2>1, <2>2, <2>6
  <1> QED BY <1>1, <1>2, <1>3 DEF IInv

LEMMA InvariantStep ==
  ASSUME IInv, [Next]_vars
  PROVE  IInv'
  <1>1. ASSUME UNCHANGED vars PROVE IInv'
    <2>1. UNCHANGED <<instructions, stack, mode, fuel, plain>>
      BY <1>1 DEF vars
    <2>2. TypeOK'
      BY <2>1 DEF IInv, TypeOK
    <2>3. JumpsLand'
      BY <2>1 DEF IInv, JumpsLand, Jumping, Addresses, Code, JumpsBack
    <2>4. (mode \in {"compile", "return"} => Frame(instructions, stack, Own(stack)))'
      BY <2>1 DEF IInv
    <2> QED BY <2>2, <2>3, <2>4 DEF IInv
  <1>2. ASSUME Terminating PROVE IInv'
    BY <1>1, <1>2 DEF Terminating
  <1> QED BY <1>1, <1>2, ValuesStep, StatementsStep, ControlStep, ProgramStep DEF Next

\* The induction: TypeOK and JumpsLand alone are not kept by the steps, which
\* rely on who owns the jumps that are still unpatched.
THEOREM CompilerInvariant == Spec => []IInv
  BY InvariantInit, InvariantStep, PTL DEF Spec

\* The compiler's state is always well formed, for every set of node kinds,
\* calls of every arity and programs of every size.
THEOREM CompilerTypeCorrect == Spec => []TypeOK
  <1>1. IInv => TypeOK
    BY DEF IInv
  <1> QED BY <1>1, CompilerInvariant, PTL

\* compile (compiler.zig:264-350, 462-528) patches every jump it emits: in a
\* finished program each one lands on an instruction, further on or, for a
\* loop, before the test that leaves it.
THEOREM JumpsAlwaysLand == Spec => []JumpsLand
  <1>1. IInv => JumpsLand
    BY DEF IInv
  <1> QED BY <1>1, CompilerInvariant, PTL
=============================================================================
