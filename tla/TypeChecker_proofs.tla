------------------------- MODULE TypeChecker_proofs -------------------------
(***************************************************************************)
(* The checker keeps the environment's scopes in step with its recursion   *)
(* and uses the environment as TypeEnvironment specifies, for programs of  *)
(* every size, so that the environment's invariants hold in every run.     *)
(* Then, about bindings copied before other checks: what was read of them  *)
(* still holds when the copy is used.                                      *)
(***************************************************************************)
EXTENDS TypeChecker, TypeEnvironment_proofs, FiniteSetTheorems,
        SequenceTheorems

-----------------------------------------------------------------------------
(* Stacks of activations *)

Owned(s) == {j \in DOMAIN s : OwnsFrame(s[j])}

Open(s) == Cardinality(Owned(s))

WellFormed(s) ==
  s \in Seq(Activation) /\ \A k \in DOMAIN s : HasItsLocals(s[k])

LEMMA OpenIsNat ==
  ASSUME NEW s \in Seq(Activation)
  PROVE  IsFiniteSet(Owned(s)) /\ Open(s) \in Nat
  <1>1. IsFiniteSet(1 .. Len(s))
    BY FS_Interval
  <1>2. Owned(s) \in SUBSET (1 .. Len(s))
    BY DEF Owned
  <1>3. IsFiniteSet(Owned(s))
    BY <1>1, <1>2, FS_Subset
  <1>. QED  BY <1>3, FS_CardinalityType DEF Open

LEMMA OpenEmpty == Open(<<>>) = 0
  <1>1. Owned(<<>>) = {}
    BY DEF Owned
  <1>. QED  BY <1>1, FS_EmptySet DEF Open

\* A call adds the frame its activation owns, if it owns one.
LEMMA OpenAppend ==
  ASSUME NEW s \in Seq(Activation), NEW a \in Activation
  PROVE  Open(Append(s, a)) = Open(s) + (IF OwnsFrame(a) THEN 1 ELSE 0)
  <1>. DEFINE n == Len(s) + 1
  <1>1. /\ Append(s, a) \in Seq(Activation)
        /\ DOMAIN Append(s, a) = 1 .. n
        /\ Append(s, a)[n] = a
        /\ \A j \in DOMAIN s : Append(s, a)[j] = s[j]
        /\ DOMAIN s = 1 .. Len(s)
        /\ Len(s) \in Nat
    OBVIOUS
  <1>2. CASE OwnsFrame(a)
    <2>1. Owned(Append(s, a)) = Owned(s) \cup {n}
      BY <1>1, <1>2 DEF Owned
    <2>2. n \notin Owned(s)
      BY <1>1 DEF Owned
    <2>. QED  BY <1>2, <2>1, <2>2, OpenIsNat, FS_AddElement DEF Open
  <1>3. CASE ~OwnsFrame(a)
    <2>1. Owned(Append(s, a)) = Owned(s)
      BY <1>1, <1>3 DEF Owned
    <2>. QED  BY <1>3, <2>1, OpenIsNat DEF Open
  <1>. QED  BY <1>2, <1>3

LEMMA AppendWellFormed ==
  ASSUME NEW s, WellFormed(s), NEW a \in Activation, HasItsLocals(a)
  PROVE  WellFormed(Append(s, a)) /\ Append(s, a) # <<>>
  <1>1. WellFormed(Append(s, a))
    BY DEF WellFormed
  <1>2. Len(Append(s, a)) = Len(s) + 1 /\ Len(s) \in Nat /\ Len(<<>>) = 0
    BY DEF WellFormed
  <1>3. Len(Append(s, a)) # Len(<<>>)
    BY <1>2
  <1>. QED  BY <1>1, <1>3

\* A stack is its callers and its top.
LEMMA StackParts ==
  ASSUME WellFormed(stack), stack # <<>>
  PROVE  /\ WellFormed(callers)
         /\ top \in Activation
         /\ HasItsLocals(top)
         /\ stack = Append(callers, top)
         /\ Open(stack) = Open(callers) + (IF OwnsFrame(top) THEN 1 ELSE 0)
         /\ Open(callers) \in Nat
  <1>1. /\ Len(stack) \in Nat \ {0}
        /\ Len(stack) \in DOMAIN stack
        /\ stack \in Seq(Activation)
    BY DEF WellFormed
  <1>2. /\ top \in Activation
        /\ HasItsLocals(top)
    BY <1>1 DEF WellFormed, top
  <1>3. /\ callers \in Seq(Activation)
        /\ Len(callers) = Len(stack) - 1
        /\ \A k \in DOMAIN callers : k \in DOMAIN stack /\ callers[k] = stack[k]
    <2>1. /\ callers \in Seq(Activation)
          /\ Len(callers) = Len(stack) - 1
          /\ \A k \in 1 .. (Len(stack) - 1) : callers[k] = stack[k]
      <3>. DEFINE n == Len(stack) - 1
      <3>1. n \in Int /\ 1 \in Int /\ \A k \in 1 .. n : stack[k] \in Activation
        BY <1>1
      <3>2. /\ SubSeq(stack, 1, n) \in Seq(Activation)
            /\ Len(SubSeq(stack, 1, n)) = IF 1 <= n THEN n - 1 + 1 ELSE 0
            /\ \A k \in 1 .. (n - 1 + 1) : SubSeq(stack, 1, n)[k] = stack[1 + k - 1]
        BY <3>1, SubSeqProperties
      <3>3. callers = SubSeq(stack, 1, n)
        BY DEF callers
      <3>4. n - 1 + 1 = n /\ n \in Nat /\ (IF 1 <= n THEN n - 1 + 1 ELSE 0) = n
        BY <1>1
      <3>5. \A k \in 1 .. n : 1 + k - 1 = k
        BY <1>1
      <3>. HIDE DEF n, callers
      <3>6. callers \in Seq(Activation) /\ Len(callers) = n
        BY <3>2, <3>3, <3>4
      <3>7. \A k \in 1 .. n : callers[k] = stack[k]
        BY <3>2, <3>3, <3>4, <3>5
      <3>. QED  BY <3>6, <3>7 DEF n
    <2>. HIDE DEF callers
    <2>. QED  BY <1>1, <2>1
  <1>4. WellFormed(callers)
    BY <1>3 DEF WellFormed
  <1>5. stack = Append(callers, top)
    <2>. HIDE DEF callers
    <2>1. /\ Append(callers, top) \in Seq(Activation)
          /\ Len(Append(callers, top)) = Len(stack)
      BY <1>1, <1>2, <1>3
    <2>2. ASSUME NEW k \in 1 .. Len(stack)
          PROVE  stack[k] = Append(callers, top)[k]
      <3>1. CASE k = Len(stack)
        BY <1>1, <1>2, <1>3, <3>1 DEF top
      <3>2. CASE k # Len(stack)
        <4>. HIDE DEF top
        <4>. QED  BY <1>1, <1>2, <1>3, <3>2
      <3>. QED  BY <3>1, <3>2
    <2>. QED  BY <1>1, <2>1, <2>2, SeqEqual
  <1>. HIDE DEF top, callers
  <1>. QED  BY <1>2, <1>3, <1>4, <1>5, OpenAppend, OpenIsNat

-----------------------------------------------------------------------------
(***************************************************************************)
(* The inductive invariant.  That a popped frame is never the global one,  *)
(* and so that a lifetime is a natural number, follows from the count of   *)
(* the open frames; that a binding is well formed, from the types of the   *)
(* activations' locals.                                                    *)
(***************************************************************************)

CheckerInv ==
  /\ EnvInv
  /\ WellFormed(stack)
  /\ mode \in {"init", "check", "return", "body", "raise", "halt", "exit", "abort"}
  /\ mode = "body" => stack # <<>>
  /\ result \in Result
  /\ err \in CompileErrors \cup {None}
  /\ fuel \in 0 .. MaxNodes
  /\ mode = "init" => frames = <<>> /\ stack = <<>>
  /\ mode \notin {"init", "halt"} => Len(frames) = 1 + Open(stack)
  /\ mode = "halt" => stack = <<>> /\ Len(frames) <= 1

LEMMA CheckerInvImplies ==
  CheckerInv => TypeOK /\ ScopesMatchActivations
  <1>. SUFFICES ASSUME CheckerInv PROVE TypeOK /\ ScopesMatchActivations
    OBVIOUS
  <1>1. TypeOK
    BY DEF CheckerInv, EnvInv, WellFormed, TypeOK
  <1>2. ScopeOf(Len(stack) + 1) = Open(stack)
    <2>1. 1 .. ((Len(stack) + 1) - 1) = DOMAIN stack
      BY DEF CheckerInv, WellFormed
    <2>2. {j \in 1 .. ((Len(stack) + 1) - 1) : OwnsFrame(stack[j])} = Owned(stack)
      BY <2>1 DEF Owned
    <2>. QED  BY <2>2 DEF ScopeOf, Open
  <1>. QED  BY <1>1, <1>2 DEF CheckerInv, ScopesMatchActivations

\* While the checker runs there is a current scope, and values made in it are
\* well formed.
LEMMA RunningFacts ==
  ASSUME CheckerInv, mode \notin {"init", "halt"}
  PROVE  /\ frames \in Seq(Frame)
         /\ frames # <<>>
         /\ currentLifetime \in Nat
         /\ \A type \in Types : Value(type) \in Result /\ createRef(type) \in Result
         /\ unit \in Result
         /\ \A type \in Types \cup {None} : callValue(type) \in Result
  <1>1. frames \in Seq(Frame) /\ Open(stack) \in Nat
    BY OpenIsNat DEF CheckerInv, EnvInv, EnvTypeOK, WellFormed
  <1>2. frames # <<>> /\ currentLifetime \in Nat
    BY <1>1 DEF CheckerInv, currentLifetime
  <1>3. unit \in Result
    BY TypesAssumption DEF unit, Result
  <1>4. \A type \in Types : Value(type) \in Result /\ createRef(type) \in Result
    BY <1>2 DEF Value, createRef, Result, LifetimeId
  <1>. QED  BY <1>1, <1>2, <1>3, <1>4 DEF callValue

\* A name that lookup finds gives a well-formed result.
LEMMA LookupFacts ==
  ASSUME CheckerInv, NEW name \in Names, Bound(name)
  PROVE  /\ lookup(name) \in SymbolInfo
         /\ lookup(name).type_name \in Types
         /\ Of(lookup(name)) \in Result
  <1>1. lookup(name) \in SymbolInfo
    BY HomeBinds DEF CheckerInv, EnvInv
  <1>. QED  BY <1>1 DEF SymbolInfo, Of, Result

-----------------------------------------------------------------------------
(***************************************************************************)
(* Most steps leave the frames alone and move control in one of five ways. *)
(***************************************************************************)

Plain ==
  /\ UNCHANGED frames
  /\ fuel' \in 0 .. MaxNodes
  /\ mode \in {"check", "return", "body"}
  /\ \/ \E a \in Activation : HasItsLocals(a) /\ ~OwnsFrame(a) /\ Call(a)
     \/ \E value \in Result : Return(value)
     \/ \E error \in CompileErrors : Raise(error)
     \/ /\ stack # <<>>
        /\ \E a \in Activation :
             HasItsLocals(a) /\ (OwnsFrame(a) <=> OwnsFrame(top)) /\ Continue(a)
     \/ /\ stack # <<>>
        /\ ~OwnsFrame(top)
        /\ \E value \in Result : Finish(value)

LEMMA PlainSound ==
  ASSUME CheckerInv, Plain
  PROVE  CheckerInv' /\ [EnvNext]_frames
  <1>1. EnvInv' /\ Len(frames') = 1 + Open(stack) /\ unit \in Result
    BY RunningFacts DEF Plain, CheckerInv, EnvInv, EnvTypeOK
  <1>2. WellFormed(stack) /\ stack \in Seq(Activation)
    BY DEF CheckerInv, WellFormed
  <1>3. ASSUME NEW a \in Activation, HasItsLocals(a), ~OwnsFrame(a), Call(a)
        PROVE  CheckerInv'
    <2>1. WellFormed(stack') /\ Open(stack') = Open(stack)
      BY <1>2, <1>3, AppendWellFormed, OpenAppend, OpenIsNat DEF Call
    <2>. QED  BY <1>1, <1>3, <2>1 DEF Call, Plain, CheckerInv
  <1>4. ASSUME NEW value \in Result, Return(value)
        PROVE  CheckerInv'
    BY <1>1, <1>4 DEF Return, Plain, CheckerInv, WellFormed
  <1>5. ASSUME NEW error \in CompileErrors, Raise(error)
        PROVE  CheckerInv'
    BY <1>1, <1>5 DEF Raise, Plain, CheckerInv, WellFormed
  <1>6. ASSUME stack # <<>>, NEW a \in Activation, HasItsLocals(a),
               (OwnsFrame(a) <=> OwnsFrame(top)), Continue(a)
        PROVE  CheckerInv'
    <2>1. /\ WellFormed(callers)
          /\ callers \in Seq(Activation)
          /\ Open(stack) = Open(callers) + (IF OwnsFrame(top) THEN 1 ELSE 0)
      BY <1>2, <1>6, StackParts DEF WellFormed
    <2>2. WellFormed(stack') /\ Open(stack') = Open(stack)
      BY <1>6, <2>1, AppendWellFormed, OpenAppend DEF Continue
    <2>. QED  BY <1>1, <1>6, <2>2 DEF Continue, Plain, CheckerInv
  <1>7. ASSUME stack # <<>>, ~OwnsFrame(top), NEW value \in Result, Finish(value)
        PROVE  CheckerInv'
    <2>1. WellFormed(stack') /\ Open(stack') = Open(stack)
      BY <1>2, <1>7, StackParts DEF Finish
    <2>. QED  BY <1>1, <1>7, <2>1 DEF Finish, Plain, CheckerInv
  <1>. QED  BY <1>3, <1>4, <1>5, <1>6, <1>7 DEF Plain

\* What holds when a node is visited and when a result comes back.
LEMMA NodeFacts ==
  ASSUME CheckerInv, NEW kind, Node(kind)
  PROVE  /\ mode = "check"
         /\ fuel' \in 0 .. MaxNodes
  BY MaxNodesAssumption DEF Node, CheckerInv

Resumed(site) ==
  /\ mode = "return"
  /\ stack # <<>>
  /\ top \in Activation
  /\ HasItsLocals(top)
  /\ top.site = site
  /\ result \in Result
  /\ result.type_name \in Types
  /\ fuel' \in 0 .. MaxNodes

LEMMA ResumeFacts ==
  ASSUME CheckerInv, NEW site, Resume(site)
  PROVE  Resumed(site)
  BY StackParts DEF Resume, Resumed, CheckerInv, Result

LEMMA AtIsActivation ==
  \A site \in Sites : At(site) \in Activation /\ At(site).site = site
  BY DEF At, Activation

\* Recording locals in an activation changes nothing else about it.
LEMMA WithLocals ==
  ASSUME NEW a \in Activation
  PROVE  /\ \A flag \in BOOLEAN :
              LET b == [a EXCEPT !.int_only = flag]
              IN  b \in Activation /\ b.site = a.site
         /\ \A type \in Types \cup {None} :
              LET b == [a EXCEPT !.type = type]
              IN  b \in Activation /\ b.site = a.site /\ b.type = type
  BY DEF Activation

-----------------------------------------------------------------------------
(* The leaves and the operators *)

LEMMA LeafPlain ==
  ASSUME CheckerInv,
         \/ checkLit \/ Unimplemented \/ NotAVariable
         \/ \E name \in Names : checkVal(name)
  PROVE  Plain
  <1>1. CASE checkLit
    BY <1>1, NodeFacts, RunningFacts DEF checkLit, Written, Plain
  <1>2. CASE Unimplemented
    BY <1>2, NodeFacts DEF Unimplemented, Plain, CompileErrors
  <1>3. CASE NotAVariable
    BY <1>3, NodeFacts, ResumeFacts DEF NotAVariable, Plain, CompileErrors, Resumed
  <1>4. ASSUME NEW name \in Names, checkVal(name)
        PROVE  Plain
    <2>1. CASE checkValError(name) = None
      <3>1. Bound(name)
        BY <2>1, NoneAssumption DEF checkValError, CompileErrors
      <3>. QED  BY <1>4, <2>1, <3>1, NodeFacts, LookupFacts
           DEF checkVal, Answer, Plain
    <2>2. CASE checkValError(name) # None
      <3>1. checkValError(name) \in CompileErrors
        BY <2>2 DEF checkValError, CompileErrors
      <3>. QED  BY <1>4, <2>2, <3>1, NodeFacts DEF checkVal, Answer, Plain
    <2>. QED  BY <2>1, <2>2
  <1>. QED  BY <1>1, <1>2, <1>3, <1>4

\* An activation that owns no frame finishes with a value or an error.
LEMMA ConcludePlain ==
  ASSUME CheckerInv, NEW site, Resume(site), UNCHANGED frames,
         site \in Sites \ {"blk", "fun params", "fun"},
         NEW error \in CompileErrors \cup {None},
         NEW value, error = None => value \in Result,
         Conclude(error, value)
  PROVE  Plain
  <1>1. Resumed(site)
    BY ResumeFacts
  <1>2. ~OwnsFrame(top)
    BY <1>1 DEF Resumed, OwnsFrame
  <1>3. CASE error = None
    BY <1>1, <1>2, <1>3 DEF Conclude, Resumed, Plain
  <1>4. CASE error # None
    BY <1>1, <1>4 DEF Conclude, Resumed, Plain
  <1>. QED  BY <1>3, <1>4

\* An activation calls check again, or raises an error.
LEMMA NextCallPlain ==
  ASSUME CheckerInv, NEW site, Resume(site), UNCHANGED frames,
         NEW error \in CompileErrors \cup {None},
         NEW a \in Activation, HasItsLocals(a),
         (OwnsFrame(a) <=> OwnsFrame(top)),
         NextCall(error, a)
  PROVE  Plain
  <1>1. Resumed(site)
    BY ResumeFacts
  <1>2. CASE error = None
    BY <1>1, <1>2 DEF NextCall, Resumed, Plain
  <1>3. CASE error # None
    BY <1>1, <1>3 DEF NextCall, Resumed, Plain
  <1>. QED  BY <1>2, <1>3

LEMMA OperatorPlain ==
  ASSUME CheckerInv, Operator
  PROVE  Plain
  <1>1. CASE checkLogic \/ checkComp
    <2>1. /\ At("logic first") \in Activation /\ At("logic first").site = "logic first"
          /\ At("comp first") \in Activation /\ At("comp first").site = "comp first"
      BY AtIsActivation DEF Sites
    <2>2. /\ HasItsLocals(At("logic first")) /\ ~OwnsFrame(At("logic first"))
          /\ HasItsLocals(At("comp first")) /\ ~OwnsFrame(At("comp first"))
      BY <2>1 DEF HasItsLocals, OwnsFrame
    <2>. QED  BY <1>1, <2>1, <2>2, NodeFacts DEF checkLogic, checkComp, Plain
  <1>2. CASE checkArith
    <2>1. PICK int_only \in BOOLEAN :
            Call([At("arith first") EXCEPT !.int_only = int_only])
      BY <1>2 DEF checkArith
    <2>. DEFINE b == At("arith first")
                a == [b EXCEPT !.int_only = int_only]
    <2>b. b \in Activation /\ b.site = "arith first"
      BY AtIsActivation DEF Sites
    <2>4. Call(a)
      BY <2>1
    <2>. HIDE DEF b
    <2>2. a \in Activation /\ a.site = "arith first"
      BY <2>b, WithLocals
    <2>3. HasItsLocals(a) /\ ~OwnsFrame(a)
      BY <2>2 DEF HasItsLocals, OwnsFrame
    <2>. HIDE DEF a
    <2>. QED  BY <1>2, <2>2, <2>3, <2>4, NodeFacts DEF checkArith, Plain
  <1>3. CASE LogicFirst
    <2>. DEFINE a == At("logic second")
    <2>1. Resume("logic first") /\ NextCall(notBoolean, a) /\ UNCHANGED frames
      BY <1>3 DEF LogicFirst
    <2>2. Resumed("logic first")
      BY <2>1, ResumeFacts
    <2>a. a \in Activation /\ a.site = "logic second"
      BY AtIsActivation DEF Sites
    <2>. HIDE DEF a
    <2>3. HasItsLocals(a) /\ (OwnsFrame(a) <=> OwnsFrame(top))
      BY <2>2, <2>a DEF HasItsLocals, OwnsFrame, Resumed
    <2>4. notBoolean \in CompileErrors \cup {None}
      BY DEF notBoolean, CompileErrors
    <2>. QED  BY <2>1, <2>a, <2>3, <2>4, NextCallPlain
  <1>4. CASE LogicSecond
    <2>1. Resume("logic second") /\ Conclude(notBoolean, Value("Bool")) /\ UNCHANGED frames
      BY <1>4 DEF LogicSecond
    <2>2. Resumed("logic second")
      BY <2>1, ResumeFacts
    <2>3. Value("Bool") \in Result
      BY <2>2, RunningFacts, TypesAssumption DEF Resumed
    <2>4. notBoolean \in CompileErrors \cup {None}
      BY DEF notBoolean, CompileErrors
    <2>. QED  BY <2>1, <2>3, <2>4, ConcludePlain DEF Sites
  <1>5. CASE CompFirst
    <2>. DEFINE b == At("comp second")
                a == [b EXCEPT !.type = result.type_name]
    <2>1. Resume("comp first") /\ Continue(a) /\ UNCHANGED frames
      BY <1>5 DEF CompFirst
    <2>2. Resumed("comp first")
      BY <2>1, ResumeFacts
    <2>b. b \in Activation /\ b.site = "comp second"
      BY AtIsActivation DEF Sites
    <2>. HIDE DEF b
    <2>3. a \in Activation /\ a.site = "comp second"
      BY <2>2, <2>b, WithLocals DEF Resumed
    <2>4. HasItsLocals(a) /\ (OwnsFrame(a) <=> OwnsFrame(top))
      BY <2>2, <2>3 DEF HasItsLocals, OwnsFrame, Resumed
    <2>. HIDE DEF a
    <2>. QED  BY <2>1, <2>2, <2>3, <2>4 DEF Plain, Resumed
  <1>6. CASE CompSecond
    <2>. DEFINE error == IF top.type # result.type_name THEN "TypeMismatch"
                         ELSE IF top.type = "Undefined" THEN "InvalidOperation"
                         ELSE None
    <2>1. Resume("comp second") /\ Conclude(error, Value("Bool")) /\ UNCHANGED frames
      BY <1>6 DEF CompSecond
    <2>2. Resumed("comp second")
      BY <2>1, ResumeFacts
    <2>3. Value("Bool") \in Result
      BY <2>2, RunningFacts, TypesAssumption DEF Resumed
    <2>4. error \in CompileErrors \cup {None}
      BY DEF CompileErrors
    <2>. HIDE DEF error
    <2>. QED  BY <2>1, <2>3, <2>4, ConcludePlain DEF Sites
  <1>7. CASE ArithFirst
    <2>. DEFINE a == [top EXCEPT !.site = "arith second", !.type = result.type_name]
    <2>1. Resume("arith first") /\ NextCall(notNumeric, a) /\ UNCHANGED frames
      BY <1>7 DEF ArithFirst
    <2>2. Resumed("arith first")
      BY <2>1, ResumeFacts
    <2>3. a \in Activation /\ a.site = "arith second"
      BY <2>2 DEF Activation, Sites, Resumed
    <2>4. HasItsLocals(a) /\ (OwnsFrame(a) <=> OwnsFrame(top))
      BY <2>2, <2>3 DEF HasItsLocals, OwnsFrame, Resumed
    <2>5. notNumeric \in CompileErrors \cup {None}
      BY DEF notNumeric, CompileErrors
    <2>. HIDE DEF a
    <2>. QED  BY <2>1, <2>3, <2>4, <2>5, NextCallPlain
  <1>8. CASE ArithSecond
    <2>. DEFINE error == IF notNumeric # None THEN notNumeric
                         ELSE IF top.type # result.type_name THEN "TypeMismatch"
                         ELSE IF top.int_only /\ ~isInteger(top.type)
                                THEN "InvalidOperation"
                         ELSE None
    <2>1. /\ Resume("arith second")
          /\ Conclude(error, Value(result.type_name))
          /\ UNCHANGED frames
      BY <1>8 DEF ArithSecond
    <2>2. Resumed("arith second")
      BY <2>1, ResumeFacts
    <2>3. Value(result.type_name) \in Result
      BY <2>2, RunningFacts DEF Resumed
    <2>4. error \in CompileErrors \cup {None}
      BY DEF notNumeric, CompileErrors
    <2>. HIDE DEF error
    <2>. QED  BY <2>1, <2>3, <2>4, ConcludePlain DEF Sites
  <1>. QED  BY <1>1, <1>2, <1>3, <1>4, <1>5, <1>6, <1>7, <1>8 DEF Operator

-----------------------------------------------------------------------------
(* Statements and conditionals *)

\* A check function that begins by calling check.
LEMMA CallPlain ==
  ASSUME CheckerInv, NEW kind, Node(kind), UNCHANGED frames,
         NEW a \in Activation, HasItsLocals(a), ~OwnsFrame(a), Call(a)
  PROVE  Plain
  BY NodeFacts DEF Plain

\* A check function that begins by raising an error.
LEMMA RaisePlain ==
  ASSUME CheckerInv, NEW kind, Node(kind), UNCHANGED frames,
         NEW error \in CompileErrors, Raise(error)
  PROVE  Plain
  BY NodeFacts DEF Plain

LEMMA NameErrors ==
  \A name : /\ checkValError(name) \in CompileErrors \cup {None}
            /\ reassignError(name) \in CompileErrors \cup {None}
            /\ compoundError(name) \in CompileErrors \cup {None}
            /\ appError(name) \in CompileErrors \cup {None}
            /\ checkValError(name) = None => Bound(name)
            /\ reassignError(name) = None => Bound(name)
            /\ appError(name) = None => Bound(name)
            /\ appError(name) = None => lookup(name).func_sig # None
  <1>. TAKE name
  <1>1. /\ checkValError(name) \in CompileErrors \cup {None}
        /\ checkValError(name) = None => Bound(name)
    BY NoneAssumption DEF checkValError, CompileErrors
  <1>2. notNumeric \in CompileErrors \cup {None}
    BY DEF notNumeric, CompileErrors
  <1>3. /\ reassignError(name) \in CompileErrors \cup {None}
        /\ reassignError(name) = None => Bound(name)
    BY <1>1, NoneAssumption DEF reassignError, CompileErrors
  <1>4. compoundError(name) \in CompileErrors \cup {None}
    BY <1>1 DEF compoundError, CompileErrors
  <1>5. /\ appError(name) \in CompileErrors \cup {None}
        /\ appError(name) = None => Bound(name)
        /\ appError(name) = None => lookup(name).func_sig # None
    BY NoneAssumption DEF appError, CompileErrors
  <1>. QED  BY <1>1, <1>3, <1>4, <1>5

LEMMA StatementPlain ==
  ASSUME CheckerInv,
         \/ checkSeq \/ SeqStatement \/ checkAssign
         \/ \E name \in Names : checkReassign(name)
         \/ ReassignValue \/ checkCompoundAssign
         \/ \E name \in Names : CompoundTarget(name)
  PROVE  Plain
  <1>1. CASE checkSeq
    <2>. DEFINE a == At("seq")
    <2>1. Node("seq") /\ UNCHANGED frames /\ (Return(unit) \/ Call(a))
      BY <1>1 DEF checkSeq
    <2>2. a \in Activation /\ a.site = "seq"
      BY AtIsActivation DEF Sites
    <2>. HIDE DEF a
    <2>3. HasItsLocals(a) /\ ~OwnsFrame(a)
      BY <2>2 DEF HasItsLocals, OwnsFrame
    <2>4. mode = "check" /\ fuel' \in 0 .. MaxNodes /\ unit \in Result
      BY <2>1, NodeFacts, RunningFacts
    <2>. QED  BY <2>1, <2>2, <2>3, <2>4 DEF Plain
  <1>2. CASE SeqStatement
    <2>1. Resume("seq") /\ UNCHANGED frames /\ (Finish(result) \/ Continue(top))
      BY <1>2 DEF SeqStatement
    <2>2. Resumed("seq")
      BY <2>1, ResumeFacts
    <2>3. ~OwnsFrame(top)
      BY <2>2 DEF OwnsFrame, Resumed
    <2>. QED  BY <2>1, <2>2, <2>3 DEF Plain, Resumed
  <1>3. CASE checkAssign
    <2>1. PICK name \in Names, mutable \in BOOLEAN, annotation \in Written \cup {None} :
            Call([At("assign") EXCEPT !.name = name, !.is_mut = mutable,
                                      !.type = annotation])
      BY <1>3 DEF checkAssign
    <2>. DEFINE b == At("assign")
                a == [b EXCEPT !.name = name, !.is_mut = mutable, !.type = annotation]
    <2>2. b \in Activation /\ b.site = "assign"
      BY AtIsActivation DEF Sites
    <2>3. Call(a) /\ Node("assign") /\ UNCHANGED frames
      BY <1>3, <2>1 DEF checkAssign
    <2>. HIDE DEF b
    <2>4. annotation \in Types \cup {None}
      BY DEF Written
    <2>5. a \in Activation /\ a.site = "assign" /\ a.name = name
      BY <2>2, <2>4 DEF Activation
    <2>. HIDE DEF a
    <2>6. HasItsLocals(a) /\ ~OwnsFrame(a)
      BY <2>5 DEF HasItsLocals, OwnsFrame
    <2>. QED  BY <2>3, <2>5, <2>6, CallPlain
  <1>4. ASSUME NEW name \in Names, checkReassign(name)
        PROVE  Plain
    <2>. DEFINE b == At("reassign")
                a == [b EXCEPT !.name = name, !.type = lookup(name).type_name]
                error == reassignError(name)
    <2>1. /\ Node("reassign") /\ UNCHANGED frames
          /\ IF error = None THEN Call(a) ELSE Raise(error)
      BY <1>4 DEF checkReassign
    <2>2. b \in Activation /\ b.site = "reassign"
      BY AtIsActivation DEF Sites
    <2>3. error \in CompileErrors \cup {None}
      BY NameErrors
    <2>4. error = None => lookup(name).type_name \in Types
      BY NameErrors, LookupFacts
    <2>. HIDE DEF b, error
    <2>5. CASE error = None
      <3>1. a \in Activation /\ a.site = "reassign"
        BY <2>2, <2>4, <2>5 DEF Activation
      <3>2. Call(a)
        BY <2>1, <2>5
      <3>. HIDE DEF a
      <3>3. HasItsLocals(a) /\ ~OwnsFrame(a)
        BY <3>1 DEF HasItsLocals, OwnsFrame
      <3>. QED  BY <2>1, <3>1, <3>2, <3>3, CallPlain
    <2>6. CASE error # None
      <3>1. Raise(error) /\ error \in CompileErrors
        BY <2>1, <2>3, <2>6
      <3>. QED  BY <2>1, <3>1, RaisePlain
    <2>. QED  BY <2>5, <2>6
  <1>5. CASE ReassignValue
    <2>. DEFINE error == IF top.type # result.type_name THEN "TypeMismatch" ELSE None
    <2>1. Resume("reassign") /\ Conclude(error, unit) /\ UNCHANGED frames
      BY <1>5 DEF ReassignValue
    <2>2. Resumed("reassign")
      BY <2>1, ResumeFacts
    <2>3. unit \in Result
      BY <2>2, RunningFacts DEF Resumed
    <2>4. error \in CompileErrors \cup {None}
      BY DEF CompileErrors
    <2>. HIDE DEF error
    <2>. QED  BY <2>1, <2>3, <2>4, ConcludePlain DEF Sites
  <1>6. CASE checkCompoundAssign
    <2>. DEFINE a == At("compound")
    <2>1. Node("compound_assign") /\ Call(a) /\ UNCHANGED frames
      BY <1>6 DEF checkCompoundAssign
    <2>2. a \in Activation /\ a.site = "compound"
      BY AtIsActivation DEF Sites
    <2>. HIDE DEF a
    <2>3. HasItsLocals(a) /\ ~OwnsFrame(a)
      BY <2>2 DEF HasItsLocals, OwnsFrame
    <2>. QED  BY <2>1, <2>2, <2>3, CallPlain
  <1>7. ASSUME NEW name \in Names, CompoundTarget(name)
        PROVE  Plain
    <2>1. /\ Resume("compound") /\ UNCHANGED frames
          /\ Conclude(compoundError(name), unit)
      BY <1>7 DEF CompoundTarget
    <2>2. Resumed("compound")
      BY <2>1, ResumeFacts
    <2>3. unit \in Result
      BY <2>2, RunningFacts DEF Resumed
    <2>4. compoundError(name) \in CompileErrors \cup {None}
      BY NameErrors
    <2>. QED  BY <2>1, <2>3, <2>4, ConcludePlain DEF Sites
  <1>. QED  BY <1>1, <1>2, <1>3, <1>4, <1>5, <1>6, <1>7

LEMMA CondPlain ==
  ASSUME CheckerInv,
         checkCond \/ CondPred \/ CondCons \/ CondAlt
  PROVE  Plain
  <1>1. CASE checkCond
    <2>. DEFINE a == At("cond pred")
    <2>1. Node("cond") /\ Call(a) /\ UNCHANGED frames
      BY <1>1 DEF checkCond
    <2>2. a \in Activation /\ a.site = "cond pred"
      BY AtIsActivation DEF Sites
    <2>. HIDE DEF a
    <2>3. HasItsLocals(a) /\ ~OwnsFrame(a)
      BY <2>2 DEF HasItsLocals, OwnsFrame
    <2>. QED  BY <2>1, <2>2, <2>3, CallPlain
  <1>2. CASE CondPred
    <2>. DEFINE a == At("cond cons")
    <2>1. Resume("cond pred") /\ NextCall(notBoolean, a) /\ UNCHANGED frames
      BY <1>2 DEF CondPred
    <2>2. Resumed("cond pred")
      BY <2>1, ResumeFacts
    <2>3. a \in Activation /\ a.site = "cond cons"
      BY AtIsActivation DEF Sites
    <2>. HIDE DEF a
    <2>4. HasItsLocals(a) /\ (OwnsFrame(a) <=> OwnsFrame(top))
      BY <2>2, <2>3 DEF HasItsLocals, OwnsFrame, Resumed
    <2>5. notBoolean \in CompileErrors \cup {None}
      BY DEF notBoolean, CompileErrors
    <2>. QED  BY <2>1, <2>3, <2>4, <2>5, NextCallPlain
  <1>3. CASE CondCons
    <2>. DEFINE b == At("cond alt")
                a == [b EXCEPT !.type = result.type_name]
    <2>1. Resume("cond cons") /\ UNCHANGED frames /\ (Continue(a) \/ Finish(unit))
      BY <1>3 DEF CondCons
    <2>2. Resumed("cond cons")
      BY <2>1, ResumeFacts
    <2>3. b \in Activation /\ b.site = "cond alt"
      BY AtIsActivation DEF Sites
    <2>. HIDE DEF b
    <2>4. a \in Activation /\ a.site = "cond alt" /\ a.type \in Types
      BY <2>2, <2>3, WithLocals DEF Resumed
    <2>. HIDE DEF a
    <2>5. HasItsLocals(a) /\ ~OwnsFrame(a) /\ ~OwnsFrame(top)
      BY <2>2, <2>4 DEF HasItsLocals, OwnsFrame, Resumed
    <2>6. unit \in Result
      BY <2>2, RunningFacts DEF Resumed
    <2>. QED  BY <2>1, <2>2, <2>4, <2>5, <2>6 DEF Plain, Resumed
  <1>4. CASE CondAlt
    <2>. DEFINE error == IF top.type # result.type_name THEN "IfElseTypeMismatch"
                         ELSE None
    <2>1. Resume("cond alt") /\ Conclude(error, Value(top.type)) /\ UNCHANGED frames
      BY <1>4 DEF CondAlt
    <2>2. Resumed("cond alt")
      BY <2>1, ResumeFacts
    <2>3. top.type \in Types
      BY <2>2 DEF Resumed, HasItsLocals
    <2>4. Value(top.type) \in Result
      BY <2>2, <2>3, RunningFacts DEF Resumed
    <2>5. error \in CompileErrors \cup {None}
      BY DEF CompileErrors
    <2>. HIDE DEF error
    <2>. QED  BY <2>1, <2>4, <2>5, ConcludePlain DEF Sites
  <1>. QED  BY <1>1, <1>2, <1>3, <1>4

-----------------------------------------------------------------------------
(* Calls *)

LEMMA TailFacts ==
  \A params \in Seq(Param) :
    /\ params # <<>> => Tail(params) \in Seq(Param)
    /\ Len(params) > 1 => params # <<>> /\ Tail(params) # <<>>
  <1>. TAKE params \in Seq(Param)
  <1>1. params # <<>> => /\ Tail(params) \in Seq(Param)
                         /\ Len(Tail(params)) = Len(params) - 1
    OBVIOUS
  <1>2. Len(params) > 1 => params # <<>>
    <2>1. params = <<>> => Len(params) = 0
      OBVIOUS
    <2>. QED  BY <2>1
  <1>3. Len(params) > 1 => Len(Tail(params)) # 0
    <2>. DEFINE n == Len(params)
                rest == Tail(params)
    <2>1. n \in Nat
      OBVIOUS
    <2>2. params # <<>> => Len(rest) = n - 1
      BY <1>1
    <2>. HIDE DEF n, rest
    <2>3. n > 1 => Len(rest) # 0
      BY <1>2, <2>1, <2>2 DEF n
    <2>. QED  BY <2>3 DEF n, rest
  <1>4. Len(params) > 1 => Tail(params) # <<>>
    BY <1>1, <1>2, <1>3
  <1>. QED  BY <1>1, <1>2, <1>4

LEMMA CallOfFunctionPlain ==
  ASSUME CheckerInv,
         \/ \E name \in Names : checkApp(name)
         \/ AppArgument
  PROVE  Plain
  <1>1. ASSUME NEW name \in Names, checkApp(name)
        PROVE  Plain
    <2>. DEFINE error     == appError(name)
                signature == lookup(name).func_sig
                b         == At("app")
                a         == [b EXCEPT !.name = name, !.type = signature.return_type,
                                       !.params = signature.params]
                value     == callValue(signature.return_type)
    <2>1. /\ Node("app") /\ UNCHANGED frames
          /\ IF error # None
               THEN Raise(error)
               ELSE \/ Raise("ArgumentCountMismatch")
                    \/ Return(value)
                    \/ signature.params # <<>> /\ Call(a)
      BY <1>1 DEF checkApp
    <2>2. error \in CompileErrors \cup {None}
      BY NameErrors
    <2>3. b \in Activation /\ b.site = "app"
      BY AtIsActivation DEF Sites
    <2>4. ASSUME error = None
          PROVE  /\ signature.params \in Seq(Param)
                 /\ signature.return_type \in Types \cup {None}
      <3>1. signature \in FunctionSignature
        BY <2>4, NameErrors, LookupFacts DEF SymbolInfo
      <3>. QED  BY <3>1, ParamListsAssumption DEF FunctionSignature
    <2>5. mode = "check" /\ fuel' \in 0 .. MaxNodes
      BY <2>1, NodeFacts
    <2>6. error = None => value \in Result
      BY <2>4, <2>5, RunningFacts
    <2>. HIDE DEF error, b, value, signature
    <2>7. error = None /\ signature.params # <<>> =>
            /\ a \in Activation
            /\ a.site = "app"
            /\ a.params # <<>>
      BY <2>3, <2>4 DEF Activation
    <2>. HIDE DEF a
    <2>8. error = None /\ signature.params # <<>> => HasItsLocals(a) /\ ~OwnsFrame(a)
      BY <2>7 DEF HasItsLocals, OwnsFrame
    <2>9. "ArgumentCountMismatch" \in CompileErrors
      BY DEF CompileErrors
    <2>10. CASE Raise("ArgumentCountMismatch")
      BY <2>1, <2>9, <2>10, RaisePlain
    <2>11. CASE error # None
      BY <2>1, <2>2, <2>11, RaisePlain
    <2>12. CASE error = None /\ Return(value)
      BY <2>1, <2>5, <2>6, <2>12 DEF Plain
    <2>13. CASE error = None /\ signature.params # <<>> /\ Call(a)
      BY <2>1, <2>7, <2>8, <2>13, CallPlain
    <2>. QED  BY <2>1, <2>10, <2>11, <2>12, <2>13
  <1>2. CASE AppArgument
    <2>. DEFINE a     == [top EXCEPT !.params = Tail(top.params)]
                value == callValue(top.type)
                error == argumentError
    <2>1. /\ Resume("app") /\ UNCHANGED frames
          /\ IF Len(top.params) > 1 THEN NextCall(error, a) ELSE Conclude(error, value)
      BY <1>2 DEF AppArgument
    <2>2. Resumed("app")
      BY <2>1, ResumeFacts
    <2>3. error \in CompileErrors \cup {None}
      BY DEF argumentError, CompileErrors
    <2>4. top.type \in Types \cup {None} /\ top.params \in Seq(Param) /\ top.site = "app"
      BY <2>2 DEF Resumed, Activation
    <2>5. value \in Result
      BY <2>2, <2>4, RunningFacts DEF Resumed
    <2>6. Len(top.params) > 1 =>
            /\ Tail(top.params) \in Seq(Param)
            /\ Tail(top.params) # <<>>
      BY <2>4, TailFacts
    <2>7. Len(top.params) > 1 =>
            /\ a \in Activation
            /\ a.site = "app"
            /\ a.params # <<>>
      BY <2>2, <2>4, <2>6 DEF Activation, Resumed
    <2>. HIDE DEF a, value, error
    <2>8. Len(top.params) > 1 => HasItsLocals(a) /\ (OwnsFrame(a) <=> OwnsFrame(top))
      BY <2>4, <2>7 DEF HasItsLocals, OwnsFrame
    <2>9. CASE Len(top.params) > 1
      BY <2>1, <2>3, <2>7, <2>8, <2>9, NextCallPlain
    <2>10. CASE ~(Len(top.params) > 1)
      BY <2>1, <2>3, <2>5, <2>10, ConcludePlain DEF Sites
    <2>. QED  BY <2>9, <2>10
  <1>. QED  BY <1>1, <1>2

-----------------------------------------------------------------------------
(***************************************************************************)
(* The other steps change the frames: each performs one operation of the   *)
(* environment and keeps the frames as many as the open activations need.  *)
(***************************************************************************)

LEMMA Lengths ==
  ASSUME EnvInv
  PROVE  /\ Len(frames) \in Nat
         /\ pushFrame => Len(frames') = Len(frames) + 1
         /\ popFrame /\ frames # <<>> => Len(frames') = Len(frames) - 1
         /\ \A name, symbol : addBinding(name, symbol) => Len(frames') = Len(frames)
         /\ \A name : (\/ incrementImmutableBorrow(name)
                       \/ setMutableBorrow(name)
                       \/ RefusedBorrow(name)) => Len(frames') = Len(frames)
  <1>1. frames \in Seq(Frame)
    BY DEF EnvInv, EnvTypeOK
  <1>2. popFrame /\ frames # <<>> => Len(frames') = Len(frames) - 1
    BY <1>1, PoppedFrames DEF EnvTypeOK
  <1>3. \A name, symbol : addBinding(name, symbol) => Len(frames') = Len(frames)
    BY <1>1 DEF addBinding
  <1>4. \A name : (\/ incrementImmutableBorrow(name)
                  \/ setMutableBorrow(name)
                  \/ RefusedBorrow(name)) => Len(frames') = Len(frames)
    BY <1>1 DEF incrementImmutableBorrow, setMutableBorrow, RefusedBorrow, Update
  <1>. QED  BY <1>1, <1>2, <1>3, <1>4 DEF pushFrame

LEMMA StepSound ==
  ASSUME CheckerInv, [EnvNext]_frames, WellFormed(stack'),
         mode' \in {"check", "return", "body", "raise", "exit", "abort"},
         mode' = "body" => stack' # <<>>,
         result' \in Result,
         err' \in CompileErrors \cup {None},
         fuel' \in 0 .. MaxNodes,
         Len(frames') = 1 + Open(stack')
  PROVE  CheckerInv'
  BY EnvNextSound DEF CheckerInv, WellFormed, HasItsLocals, OwnsFrame, Open, Owned

\* A declaration: the frame gains a binding, or an error is raised.
LEMMA AssignValueSound ==
  ASSUME CheckerInv, AssignValue
  PROVE  CheckerInv' /\ [EnvNext]_frames
  <1>. DEFINE error  == assignError
              symbol == create(result.type_name, top.is_mut, currentLifetime)
  <1>1. /\ Resume("assign")
        /\ Conclude(error, unit)
        /\ IF error = None THEN addBinding(top.name, symbol) ELSE UNCHANGED frames
    BY DEF AssignValue
  <1>2. Resumed("assign")
    BY <1>1, ResumeFacts
  <1>3. unit \in Result
    BY <1>2, RunningFacts DEF Resumed
  <1>4. error \in CompileErrors \cup {None}
    BY DEF assignError, CompileErrors
  <1>5. /\ top.name \in Names
        /\ symbol \in NewSymbol
        /\ ~OwnsFrame(top)
    BY <1>2 DEF Resumed, HasItsLocals, Activation, NewSymbol, OwnsFrame
  <1>. HIDE DEF error, symbol
  <1>6. CASE error = None
    <2>1. EnvNext /\ Len(frames') = Len(frames)
      BY <1>1, <1>5, <1>6, Lengths DEF EnvNext, CheckerInv
    <2>2. /\ mode' = "return" /\ stack' = callers /\ result' = unit
          /\ UNCHANGED err
      BY <1>1, <1>6 DEF Conclude, Finish
    <2>3. WellFormed(stack') /\ Open(stack') = Open(stack)
      BY <1>2, <1>5, <2>2, StackParts DEF CheckerInv, Resumed
    <2>. QED  BY <1>2, <1>3, <2>1, <2>2, <2>3, StepSound DEF CheckerInv, Resumed
  <1>7. CASE error # None
    <2>1. Plain
      BY <1>1, <1>3, <1>4, <1>7, ConcludePlain DEF Sites
    <2>. QED  BY <2>1, PlainSound
  <1>. QED  BY <1>6, <1>7

\* A block's frame is pushed as its activation is, and popped with it.
LEMMA BlockSound ==
  ASSUME CheckerInv, checkBlk \/ BlkBody
  PROVE  CheckerInv' /\ [EnvNext]_frames
  <1>1. CASE checkBlk
    <2>. DEFINE a == At("blk")
    <2>1. Node("blk") /\ Call(a) /\ pushFrame
      BY <1>1 DEF checkBlk
    <2>2. a \in Activation /\ a.site = "blk"
      BY AtIsActivation DEF Sites
    <2>. HIDE DEF a
    <2>3. HasItsLocals(a) /\ OwnsFrame(a)
      BY <2>2 DEF HasItsLocals, OwnsFrame
    <2>4. mode = "check" /\ fuel' \in 0 .. MaxNodes
      BY <2>1, NodeFacts
    <2>5. EnvNext /\ Len(frames') = Len(frames) + 1
      BY <2>1, Lengths DEF EnvNext, CheckerInv
    <2>6. /\ mode' = "check" /\ stack' = Append(stack, a)
          /\ UNCHANGED <<result, err>>
      BY <2>1 DEF Call
    <2>7. WellFormed(stack') /\ Open(stack') = Open(stack) + 1
      BY <2>2, <2>3, <2>6, AppendWellFormed, OpenAppend DEF CheckerInv, WellFormed
    <2>8. Len(frames) \in Nat /\ Open(stack) \in Nat
      BY Lengths, OpenIsNat DEF CheckerInv, WellFormed
    <2>. QED  BY <2>4, <2>5, <2>6, <2>7, <2>8, StepSound DEF CheckerInv
  <1>2. CASE BlkBody
    <2>1. Resume("blk") /\ Finish(result) /\ popFrame
      BY <1>2 DEF BlkBody
    <2>2. Resumed("blk")
      BY <2>1, ResumeFacts
    <2>3. OwnsFrame(top)
      BY <2>2 DEF OwnsFrame, Resumed
    <2>4. /\ mode' = "return" /\ stack' = callers /\ result' = result
          /\ UNCHANGED err
      BY <2>1 DEF Finish
    <2>5. /\ WellFormed(stack')
          /\ Open(stack) = Open(stack') + 1
          /\ Open(stack') \in Nat
      BY <2>2, <2>3, <2>4, StackParts DEF CheckerInv, Resumed
    <2>6. EnvNext /\ Len(frames') = Len(frames) - 1 /\ Len(frames) \in Nat
      BY <2>1, <2>2, Lengths, RunningFacts DEF EnvNext, CheckerInv, Resumed
    <2>. QED  BY <2>2, <2>4, <2>5, <2>6, StepSound DEF CheckerInv, Resumed
  <1>. QED  BY <1>1, <1>2

LEMMA BorrowStepSound ==
  ASSUME CheckerInv, NEW name \in Names,
         checkBorrow(name) \/ checkBorrowMut(name)
  PROVE  CheckerInv' /\ [EnvNext]_frames
  <1>. DEFINE value == createRef(lookup(name).type_name)
  <1>1. ASSUME NEW kind, NEW error, Node(kind), Answer(error, value),
               error \in CompileErrors \cup {None},
               error = None => Bound(name),
               \/ incrementImmutableBorrow(name)
               \/ setMutableBorrow(name)
               \/ RefusedBorrow(name)
               \/ UNCHANGED frames
        PROVE  CheckerInv' /\ [EnvNext]_frames
    <2>1. [EnvNext]_frames /\ Len(frames') = Len(frames)
      BY <1>1, Lengths DEF EnvNext, CheckerInv
    <2>2. mode = "check" /\ fuel' \in 0 .. MaxNodes /\ unit \in Result
      BY <1>1, NodeFacts, RunningFacts
    <2>3. error = None => value \in Result
      BY <1>1, <2>2, LookupFacts, RunningFacts
    <2>. HIDE DEF value
    <2>4. /\ mode' \in {"return", "raise"} /\ stack' = stack /\ result' \in Result
          /\ err' \in CompileErrors \cup {None}
      <3>1. CASE error = None
        <4>1. Return(value)
          BY <1>1, <3>1 DEF Answer
        <4>. QED  BY <2>3, <3>1, <4>1 DEF Return, CheckerInv
      <3>2. CASE error # None
        <4>1. Raise(error)
          BY <1>1, <3>2 DEF Answer
        <4>. QED  BY <1>1, <2>2, <3>2, <4>1 DEF Raise
      <3>. QED  BY <3>1, <3>2
    <2>5. WellFormed(stack') /\ Open(stack') = Open(stack)
      BY <2>4 DEF CheckerInv
    <2>. QED  BY <2>1, <2>2, <2>4, <2>5, StepSound DEF CheckerInv
  <1>2. CASE checkBorrow(name)
    <2>1. /\ Node("borrow") /\ Answer(borrowError(name), value)
          /\ \/ incrementImmutableBorrow(name)
             \/ RefusedBorrow(name)
             \/ UNCHANGED frames
      BY <1>2 DEF checkBorrow
    <2>2. incrementImmutableBorrowError(name) \in CompileErrors \cup {None}
      BY DEF incrementImmutableBorrowError, CompileErrors
    <2>3. /\ borrowError(name) \in CompileErrors \cup {None}
          /\ borrowError(name) = None => Bound(name)
      BY <2>2, NameErrors DEF borrowError, CompileErrors
    <2>. QED  BY <1>1, <2>1, <2>3
  <1>3. CASE checkBorrowMut(name)
    <2>1. /\ Node("borrow_mut") /\ Answer(borrowMutError(name), value)
          /\ \/ setMutableBorrow(name)
             \/ RefusedBorrow(name)
             \/ UNCHANGED frames
      BY <1>3 DEF checkBorrowMut
    <2>2. setMutableBorrowError(name) \in CompileErrors \cup {None}
      BY DEF setMutableBorrowError, CompileErrors
    <2>3. /\ borrowMutError(name) \in CompileErrors \cup {None}
          /\ borrowMutError(name) = None => Bound(name)
      BY <2>2, NameErrors DEF borrowMutError, CompileErrors
    <2>. QED  BY <1>1, <2>1, <2>3
  <1>. QED  BY <1>2, <1>3

\* A function is bound before its frame is pushed, its parameters after.
LEMMA CheckFuncSound ==
  ASSUME CheckerInv, checkFunc
  PROVE  CheckerInv' /\ [EnvNext]_frames
  <1>. DEFINE signature(params, type) == [params |-> params, return_type |-> type]
              symbol(params, type) == createFunc(signature(params, type), currentLifetime)
              enter(name, params, type) ==
                [At("fun enter") EXCEPT !.name = name, !.type = type, !.params = params]
  <1>1. PICK name \in Names, params \in ParamLists,
             type \in Written \cup {None}, body \in BOOLEAN :
          IF DeclaredHere(name)
            THEN Raise("SymbolAlreadyDeclared") /\ UNCHANGED frames
            ELSE /\ addBinding(name, symbol(params, type))
                 /\ IF body
                      THEN /\ mode' = "body"
                           /\ stack' = Append(stack, enter(name, params, type))
                           /\ UNCHANGED <<result, err>>
                      ELSE Return(unit)
    BY DEF checkFunc
  <1>2. Node("fun") /\ mode = "check" /\ fuel' \in 0 .. MaxNodes
    BY NodeFacts DEF checkFunc
  <1>3. type \in Types \cup {None} /\ params \in Seq(Param)
    BY ParamListsAssumption DEF Written
  <1>4. symbol(params, type) \in NewSymbol
    <2>1. signature(params, type) \in FunctionSignature
      BY <1>3 DEF FunctionSignature
    <2>. HIDE DEF signature
    <2>. QED  BY <2>1 DEF NewSymbol
  <1>. HIDE DEF symbol
  <1>5. CASE DeclaredHere(name)
    <2>1. Raise("SymbolAlreadyDeclared") /\ UNCHANGED frames
      BY <1>1, <1>5
    <2>2. "SymbolAlreadyDeclared" \in CompileErrors
      BY DEF CompileErrors
    <2>. QED  BY <1>2, <2>1, <2>2, RaisePlain, PlainSound
  <1>6. CASE ~DeclaredHere(name)
    <2>. DEFINE b == At("fun enter")
                a == [b EXCEPT !.name = name, !.type = type, !.params = params]
    <2>1. EnvNext /\ Len(frames') = Len(frames)
      BY <1>1, <1>4, <1>6, Lengths DEF EnvNext, CheckerInv
    <2>2. CASE body
      <3>1. /\ mode' = "body" /\ stack' = Append(stack, a)
            /\ UNCHANGED <<result, err>>
        BY <1>1, <1>6, <2>2
      <3>2. b \in Activation /\ b.site = "fun enter"
        BY AtIsActivation DEF Sites
      <3>. HIDE DEF b
      <3>3. a \in Activation /\ a.site = "fun enter"
        BY <1>3, <3>2 DEF Activation
      <3>. HIDE DEF a
      <3>4. HasItsLocals(a) /\ ~OwnsFrame(a)
        BY <3>3 DEF HasItsLocals, OwnsFrame
      <3>5. WellFormed(stack') /\ Open(stack') = Open(stack) /\ stack' # <<>>
        <4>1. WellFormed(stack) /\ stack \in Seq(Activation) /\ Open(stack) \in Nat
          BY OpenIsNat DEF CheckerInv, WellFormed
        <4>2. WellFormed(Append(stack, a)) /\ Append(stack, a) # <<>>
          BY <3>3, <3>4, <4>1, AppendWellFormed
        <4>3. Open(Append(stack, a)) = Open(stack) + (IF OwnsFrame(a) THEN 1 ELSE 0)
          BY <3>3, <4>1, OpenAppend
        <4>4. Open(Append(stack, a)) = Open(stack)
          BY <3>4, <4>1, <4>3
        <4>. QED  BY <3>1, <4>2, <4>4
      <3>. QED  BY <1>2, <2>1, <3>1, <3>5, StepSound DEF CheckerInv
    <2>3. CASE ~body
      <3>1. Return(unit) /\ unit \in Result
        BY <1>1, <1>2, <1>6, <2>3, RunningFacts
      <3>. QED  BY <1>2, <2>1, <3>1, StepSound DEF CheckerInv, Return, WellFormed
    <2>. QED  BY <2>2, <2>3
  <1>. QED  BY <1>5, <1>6

LEMMA FuncFramesSound ==
  ASSUME CheckerInv, FuncEnter \/ FuncParam \/ FuncBody \/ FuncReturn
  PROVE  CheckerInv' /\ [EnvNext]_frames
  <1>1. mode = "body" => stack # <<>>
    BY DEF CheckerInv
  <1>2. /\ WellFormed(stack)
        /\ Len(frames) \in Nat
        /\ Open(stack) \in Nat
        /\ mode \notin {"init", "halt"} => Len(frames) = 1 + Open(stack)
    BY Lengths, OpenIsNat DEF CheckerInv, WellFormed
  <1>3. CASE FuncEnter
    <2>. DEFINE a == [top EXCEPT !.site = "fun params"]
    <2>1. /\ mode = "body" /\ top.site = "fun enter"
          /\ stack' = Append(callers, a)
          /\ pushFrame
          /\ UNCHANGED <<mode, result, err, fuel>>
      BY <1>3 DEF FuncEnter
    <2>2. /\ WellFormed(callers) /\ callers \in Seq(Activation)
          /\ top \in Activation
          /\ Open(stack) = Open(callers) + (IF OwnsFrame(top) THEN 1 ELSE 0)
          /\ Open(callers) \in Nat
      BY <1>1, <1>2, <2>1, StackParts DEF WellFormed
    <2>3. a \in Activation /\ a.site = "fun params"
      BY <2>2 DEF Activation, Sites
    <2>. HIDE DEF a
    <2>4. HasItsLocals(a) /\ OwnsFrame(a) /\ ~OwnsFrame(top)
      BY <2>1, <2>3 DEF HasItsLocals, OwnsFrame
    <2>5. EnvNext /\ Len(frames') = Len(frames) + 1
      BY <2>1, Lengths DEF EnvNext, CheckerInv
    <2>6. WellFormed(stack') /\ Open(stack') = Open(stack) + 1 /\ stack' # <<>>
      <3>1. WellFormed(Append(callers, a)) /\ Append(callers, a) # <<>>
        BY <2>2, <2>3, <2>4, AppendWellFormed
      <3>2. Open(Append(callers, a)) = Open(callers) + 1
        BY <2>2, <2>3, <2>4, OpenAppend
      <3>3. Open(callers) = Open(stack)
        BY <1>2, <2>2, <2>4
      <3>. QED  BY <2>1, <3>1, <3>2, <3>3
    <2>7. Len(frames') = 1 + Open(stack')
      <3>1. Len(frames) = 1 + Open(stack)
        BY <1>2, <2>1
      <3>. QED  BY <1>2, <2>5, <2>6, <3>1
    <2>8. /\ mode' = "body" /\ result' \in Result
          /\ err' \in CompileErrors \cup {None} /\ fuel' \in 0 .. MaxNodes
      BY <2>1 DEF CheckerInv
    <2>. QED  BY <2>5, <2>6, <2>7, <2>8, StepSound
  <1>4. CASE FuncParam
    <2>. DEFINE param  == Head(top.params)
                symbol == create(param.type_name, param.is_mut, currentLifetime)
                a      == [top EXCEPT !.params = Tail(top.params)]
    <2>1. /\ mode = "body" /\ top.site = "fun params" /\ top.params # <<>>
          /\ fuel' = fuel
          /\ IF DeclaredHere(param.nam)
               THEN Raise("SymbolAlreadyDeclared") /\ UNCHANGED frames
               ELSE /\ addBinding(param.nam, symbol)
                    /\ stack' = Append(callers, a)
                    /\ UNCHANGED <<mode, result, err>>
      BY <1>4 DEF FuncParam
    <2>2. /\ WellFormed(callers) /\ callers \in Seq(Activation)
          /\ top \in Activation
          /\ Open(stack) = Open(callers) + (IF OwnsFrame(top) THEN 1 ELSE 0)
          /\ Open(callers) \in Nat
      BY <1>1, <1>2, <2>1, StackParts DEF WellFormed
    <2>3. top.params \in Seq(Param) /\ OwnsFrame(top)
      BY <2>1, <2>2 DEF Activation, OwnsFrame
    <2>4. param \in Param /\ Tail(top.params) \in Seq(Param)
      <3>1. \A params \in Seq(Param) : params # <<>> => Head(params) \in Param
        OBVIOUS
      <3>. QED  BY <2>1, <2>3, <3>1, TailFacts
    <2>. HIDE DEF param
    <2>5. param.nam \in Names /\ symbol \in NewSymbol
      BY <2>4 DEF Param, NewSymbol
    <2>6. a \in Activation /\ a.site = "fun params"
      BY <2>1, <2>2, <2>4 DEF Activation
    <2>. HIDE DEF a, symbol
    <2>7. HasItsLocals(a) /\ OwnsFrame(a)
      BY <2>6 DEF HasItsLocals, OwnsFrame
    <2>8. CASE DeclaredHere(param.nam)
      <3>1. Raise("SymbolAlreadyDeclared") /\ UNCHANGED frames
        BY <2>1, <2>8
      <3>2. "SymbolAlreadyDeclared" \in CompileErrors /\ fuel' \in 0 .. MaxNodes
        BY <2>1 DEF CompileErrors, CheckerInv
      <3>3. Plain
        BY <2>1, <3>1, <3>2 DEF Plain
      <3>. QED  BY <3>3, PlainSound
    <2>9. CASE ~DeclaredHere(param.nam)
      <3>1. EnvNext /\ Len(frames') = Len(frames)
        BY <2>1, <2>5, <2>9, Lengths DEF EnvNext, CheckerInv
      <3>2. stack' = Append(callers, a) /\ UNCHANGED <<mode, result, err, fuel>>
        BY <2>1, <2>9
      <3>3. WellFormed(stack') /\ Open(stack') = Open(stack) /\ stack' # <<>>
        BY <2>2, <2>3, <2>6, <2>7, <3>2, AppendWellFormed, OpenAppend
      <3>. QED  BY <1>2, <2>1, <3>1, <3>2, <3>3, StepSound DEF CheckerInv
    <2>. QED  BY <2>8, <2>9
  <1>5. CASE FuncBody
    <2>. DEFINE a == [top EXCEPT !.site = "fun"]
    <2>1. /\ mode = "body" /\ top.site = "fun params"
          /\ Continue(a) /\ UNCHANGED <<frames, fuel>>
      BY <1>5 DEF FuncBody
    <2>2. top \in Activation /\ stack # <<>>
      BY <1>1, <1>2, <2>1, StackParts
    <2>3. a \in Activation /\ a.site = "fun"
      BY <2>2 DEF Activation, Sites
    <2>. HIDE DEF a
    <2>4. HasItsLocals(a) /\ OwnsFrame(a) /\ OwnsFrame(top)
      BY <2>1, <2>3 DEF HasItsLocals, OwnsFrame
    <2>5. fuel' \in 0 .. MaxNodes
      BY <2>1 DEF CheckerInv
    <2>6. Plain
      BY <2>1, <2>2, <2>3, <2>4, <2>5 DEF Plain
    <2>. QED  BY <2>6, PlainSound
  <1>6. CASE FuncReturn
    <2>. DEFINE matches == top.type \in {None, result.type_name}
                error   == IF matches THEN None ELSE "TypeMismatch"
    <2>1. /\ Resume("fun") /\ Conclude(error, unit)
          /\ IF matches THEN popFrame ELSE UNCHANGED frames
      BY <1>6 DEF FuncReturn
    <2>2. Resumed("fun")
      BY <2>1, ResumeFacts
    <2>3. unit \in Result
      BY <2>2, RunningFacts DEF Resumed
    <2>4. CASE matches
      <3>1. error = None
        BY <2>4
      <3>. HIDE DEF error
      <3>2. Finish(unit) /\ popFrame
        BY <2>1, <2>4, <3>1 DEF Conclude
      <3>3. OwnsFrame(top)
        BY <2>2 DEF OwnsFrame, Resumed
      <3>4. /\ mode' = "return" /\ stack' = callers /\ result' = unit
            /\ UNCHANGED err
        BY <3>2 DEF Finish
      <3>5. /\ WellFormed(stack')
            /\ Open(stack) = Open(stack') + 1
            /\ Open(stack') \in Nat
        BY <2>2, <3>3, <3>4, StackParts DEF CheckerInv, Resumed
      <3>6. EnvNext /\ Len(frames') = Len(frames) - 1 /\ Len(frames) \in Nat
        BY <2>2, <3>2, Lengths, RunningFacts DEF EnvNext, CheckerInv, Resumed
      <3>. QED  BY <2>2, <2>3, <3>4, <3>5, <3>6, StepSound DEF CheckerInv, Resumed
    <2>5. CASE ~matches
      <3>1. error = "TypeMismatch" /\ error # None /\ error \in CompileErrors
        BY <2>5, NoneAssumption DEF CompileErrors
      <3>. HIDE DEF error
      <3>2. Raise(error) /\ UNCHANGED frames
        BY <2>1, <2>5, <3>1 DEF Conclude
      <3>3. Plain
        BY <2>2, <3>1, <3>2 DEF Plain, Resumed
      <3>. QED  BY <3>3, PlainSound
    <2>. QED  BY <2>4, <2>5
  <1>. QED  BY <1>3, <1>4, <1>5, <1>6

\* An error leaves an activation, popping the frame it owns.
LEMMA UnwindSound ==
  ASSUME CheckerInv, Unwind
  PROVE  CheckerInv' /\ [EnvNext]_frames
  <1>1. /\ mode = "raise" /\ stack # <<>> /\ stack' = callers
        /\ IF OwnsFrame(top) THEN popFrame ELSE UNCHANGED frames
        /\ UNCHANGED <<mode, result, err, fuel>>
    BY DEF Unwind
  <1>2. /\ WellFormed(callers)
        /\ Open(stack) = Open(callers) + (IF OwnsFrame(top) THEN 1 ELSE 0)
        /\ Open(callers) \in Nat
    BY <1>1, StackParts DEF CheckerInv
  <1>3. Len(frames) = 1 + Open(stack) /\ frames # <<>>
    BY <1>1, RunningFacts DEF CheckerInv
  <1>4. /\ mode' = "raise" /\ result' \in Result
        /\ err' \in CompileErrors \cup {None} /\ fuel' \in 0 .. MaxNodes
    BY <1>1 DEF CheckerInv
  <1>5. CASE OwnsFrame(top)
    <2>1. EnvNext /\ Len(frames') = Len(frames) - 1
      BY <1>1, <1>3, <1>5, Lengths DEF EnvNext, CheckerInv
    <2>2. Len(frames') = 1 + Open(stack')
      BY <1>1, <1>2, <1>3, <1>5, <2>1
    <2>. QED  BY <1>1, <1>2, <1>4, <2>1, <2>2, StepSound
  <1>6. CASE ~OwnsFrame(top)
    <2>1. UNCHANGED frames /\ Open(stack') = Open(stack)
      BY <1>1, <1>2, <1>6
    <2>2. Len(frames') = 1 + Open(stack')
      BY <1>3, <2>1
    <2>. QED  BY <1>1, <1>2, <1>4, <2>1, <2>2, StepSound
  <1>. QED  BY <1>5, <1>6

LEMMA ControlSound ==
  ASSUME CheckerInv, Start \/ Halt \/ deinit \/ Exit \/ Abort \/ Terminating
  PROVE  CheckerInv' /\ [EnvNext]_frames
  <1>1. Open(stack) \in Nat /\ Len(frames) \in Nat
    BY Lengths, OpenIsNat DEF CheckerInv, WellFormed
  <1>2. CASE Start
    <2>1. /\ mode = "init" /\ mode' = "check" /\ pushFrame
          /\ UNCHANGED <<stack, result, err, fuel>>
      BY <1>2 DEF Start
    <2>2. stack = <<>> /\ frames = <<>> /\ Len(frames) = 0
      BY <2>1 DEF CheckerInv
    <2>3. EnvNext /\ Len(frames') = Len(frames) + 1
      BY <2>1, Lengths DEF EnvNext, CheckerInv
    <2>4. Open(stack') = 0
      BY <2>1, <2>2, OpenEmpty
    <2>5. Len(frames') = 1 + Open(stack')
      BY <2>2, <2>3, <2>4
    <2>. QED  BY <2>1, <2>3, <2>5, StepSound DEF CheckerInv
  <1>3. CASE Halt
    <2>1. /\ mode \in {"return", "raise"} /\ stack = <<>> /\ mode' = "halt"
          /\ result' = unit
          /\ UNCHANGED <<frames, stack, err, fuel>>
      BY <1>3 DEF Halt
    <2>2. Len(frames) <= 1 /\ unit \in Result
      BY <2>1, OpenEmpty, RunningFacts DEF CheckerInv
    <2>3. EnvInv'
      BY <2>1, EnvNextSound DEF CheckerInv
    <2>. QED  BY <2>1, <2>2, <2>3 DEF CheckerInv
  <1>4. CASE deinit
    <2>1. mode = "halt" /\ frames # <<>> /\ popFrame /\ UNCHANGED checker
      BY <1>4 DEF deinit
    <2>2. EnvNext /\ Len(frames') = Len(frames) - 1
      BY <2>1, Lengths DEF EnvNext, CheckerInv
    <2>3. EnvInv'
      BY <2>2, EnvNextSound DEF CheckerInv
    <2>4. Len(frames') <= 1
      BY <1>1, <2>1, <2>2 DEF CheckerInv
    <2>. QED  BY <2>1, <2>2, <2>3, <2>4 DEF CheckerInv, checker, WellFormed
  <1>5. CASE Exit \/ Abort
    <2>1. /\ mode' \in {"exit", "abort"}
          /\ UNCHANGED <<frames, stack, result, err, fuel>>
      BY <1>5 DEF Exit, Abort
    <2>2. Len(frames) = 1 + Open(stack)
      <3>1. CASE mode = "halt"
        <4>1. frames # <<>>
          BY <1>5, <3>1 DEF Exit, Abort, TouchesFreedMemory
        <4>2. stack = <<>> /\ Len(frames) <= 1 /\ frames \in Seq(Frame)
          BY <3>1 DEF CheckerInv, EnvInv, EnvTypeOK
        <4>3. Len(frames) = 1
          <5>1. Len(frames) # 0
            BY <4>1, <4>2
          <5>. DEFINE n == Len(frames)
          <5>2. n \in Nat /\ n <= 1 /\ n # 0
            BY <1>1, <4>2, <5>1
          <5>. HIDE DEF n
          <5>3. n = 1
            BY <5>2
          <5>. QED  BY <5>3 DEF n
        <4>. QED  BY <4>2, <4>3, OpenEmpty
      <3>2. CASE mode # "halt"
        <4>1. mode \in {"check", "return", "raise"}
          BY <1>5, <3>2 DEF Exit, Abort, TouchesFreedMemory
        <4>. QED  BY <4>1 DEF CheckerInv
      <3>. QED  BY <3>1, <3>2
    <2>3. Len(frames') = 1 + Open(stack')
      BY <2>1, <2>2
    <2>4. /\ WellFormed(stack') /\ result' \in Result
          /\ err' \in CompileErrors \cup {None} /\ fuel' \in 0 .. MaxNodes
      BY <2>1 DEF CheckerInv
    <2>. QED  BY <2>1, <2>3, <2>4, StepSound
  <1>6. CASE Terminating
    BY <1>6, EnvNextSound DEF Terminating, vars, CheckerInv, WellFormed, Open, Owned
  <1>. QED  BY <1>2, <1>3, <1>4, <1>5, <1>6

-----------------------------------------------------------------------------
(* The theorems *)

\* Every step of the checker preserves the invariant and is a step of the
\* environment.
LEMMA CheckerNextSound ==
  ASSUME CheckerInv, [Next]_vars
  PROVE  CheckerInv' /\ [EnvNext]_frames
  <1>1. CASE UNCHANGED vars
    BY <1>1, EnvNextSound DEF vars, CheckerInv, WellFormed, Open, Owned
  <1>2. CASE Leaf
    <2>1. ASSUME \/ checkLit \/ Unimplemented \/ NotAVariable
                 \/ \E name \in Names : checkVal(name)
          PROVE  CheckerInv' /\ [EnvNext]_frames
      BY <2>1, LeafPlain, PlainSound
    <2>. QED  BY <1>2, <2>1, BorrowStepSound DEF Leaf
  <1>3. CASE Operator
    BY <1>3, OperatorPlain, PlainSound
  <1>4. CASE Statement
    <2>1. ASSUME \/ checkSeq \/ SeqStatement \/ checkAssign
                 \/ \E name \in Names : checkReassign(name)
                 \/ ReassignValue \/ checkCompoundAssign
                 \/ \E name \in Names : CompoundTarget(name)
          PROVE  CheckerInv' /\ [EnvNext]_frames
      BY <2>1, StatementPlain, PlainSound
    <2>2. ASSUME checkCond \/ CondPred \/ CondCons \/ CondAlt
          PROVE  CheckerInv' /\ [EnvNext]_frames
      BY <2>2, CondPlain, PlainSound
    <2>. QED  BY <1>4, <2>1, <2>2, AssignValueSound, BlockSound DEF Statement
  <1>5. CASE Function
    <2>1. ASSUME \/ \E name \in Names : checkApp(name)
                 \/ AppArgument
          PROVE  CheckerInv' /\ [EnvNext]_frames
      BY <2>1, CallOfFunctionPlain, PlainSound
    <2>. QED  BY <1>5, <2>1, CheckFuncSound, FuncFramesSound DEF Function
  <1>6. CASE Control
    BY <1>6, UnwindSound, ControlSound DEF Control
  <1>. QED  BY <1>1, <1>2, <1>3, <1>4, <1>5, <1>6 DEF Next

LEMMA CheckerInit == Init => CheckerInv /\ EnvInit
  <1>. SUFFICES ASSUME Init PROVE CheckerInv /\ EnvInit
    OBVIOUS
  <1>1. EnvInv /\ EnvInit
    BY DEF Init, EnvInit, EnvInv, EnvTypeOK
  <1>2. unit \in Result
    BY TypesAssumption DEF unit, Result
  <1>3. WellFormed(stack)
    BY DEF Init, WellFormed
  <1>. QED  BY <1>1, <1>2, <1>3, MaxNodesAssumption DEF Init, EnvInit, CheckerInv

LEMMA CheckerInvInductive == Spec => []CheckerInv
  <1>1. CheckerInv /\ [Next]_vars => CheckerInv'
    BY CheckerNextSound
  <1>. QED  BY <1>1, CheckerInit, PTL DEF Spec

\* The checker's state is well formed whatever program it checks.
THEOREM CheckerTypeCorrect == Spec => []TypeOK
  BY CheckerInvInductive, CheckerInvImplies, PTL

\* The frames that are open are those of the blocks and functions being
\* checked, on the paths of errors too.
THEOREM ScopesFollowTheRecursion == Spec => []ScopesMatchActivations
  BY CheckerInvInductive, CheckerInvImplies, PTL

\* The checker uses the environment by its operations only, each within its
\* precondition: every run of the checker is a run of the environment.
THEOREM CheckerImplementsEnvironment == Spec => EnvSpec
  <1>1. CheckerInv /\ [Next]_vars => [EnvNext]_frames
    BY CheckerNextSound
  <1>. QED  BY <1>1, CheckerInit, CheckerInvInductive, PTL DEF Spec, EnvSpec

\* Hence no program makes the checker record a mutable borrow beside another
\* borrow, or lose a borrow before its scope ends.
THEOREM CheckerBorrowsExclude == Spec => []MutXorShared
  BY CheckerImplementsEnvironment, BorrowsExclude, PTL

THEOREM CheckerBorrowsLast == Spec => BorrowsLastAsLongAsTheirScope
  BY CheckerImplementsEnvironment, BorrowsLast, PTL

-----------------------------------------------------------------------------
(***************************************************************************)
(* Errors.  Most checks can only raise the errors that are not about a     *)
(* conflict of borrows or a lifetime; AppArgument may find a lifetime too  *)
(* short; in the two borrow checks, LifetimeIsFrame rules the lifetime     *)
(* test out and the tests before the environment is asked rule out its     *)
(* conflicts.                                                              *)
(***************************************************************************)

Ordinary ==
  CompileErrors \ {"BorrowConflictMutable", "BorrowConflictImmutable", "ShortLivedBorrow"}

\* What the checker answers to a conflict of borrows, where compiler_test.zig:519,
\* :551 and :581 expect the errors of the environment (ConflictsAreNamed): never
\* one of those, because the checker's own tests come first.  And it raises the
\* lifetime error for an argument of a call only, never for a borrow.
RaisedErrors ==
  [][err' # err =>
       /\ err' \notin {"BorrowConflictMutable", "BorrowConflictImmutable"}
       /\ err' = "ShortLivedBorrow" => mode = "return" /\ top.site = "app"]_vars

\* The step of RaisedErrors.
RaisesOrdinary ==
  \/ err' = err
  \/ err' \in Ordinary
  \/ err' = "ShortLivedBorrow" /\ mode = "return" /\ top.site = "app"

LEMMA OrdinaryMoves ==
  ASSUME NEW error \in Ordinary \cup {None}, NEW value, NEW a,
         \/ Call(a) \/ Return(value) \/ Continue(a) \/ Finish(value)
         \/ error # None /\ Raise(error)
         \/ Answer(error, value) \/ Conclude(error, value) \/ NextCall(error, a)
  PROVE  RaisesOrdinary
  <1>1. error # None => error \in Ordinary
    OBVIOUS
  <1>2. CASE Call(a)
    BY <1>2 DEF Call, RaisesOrdinary
  <1>3. CASE Return(value)
    BY <1>3 DEF Return, RaisesOrdinary
  <1>4. CASE Continue(a)
    BY <1>4 DEF Continue, RaisesOrdinary
  <1>5. CASE Finish(value)
    BY <1>5 DEF Finish, RaisesOrdinary
  <1>6. CASE error # None /\ Raise(error)
    BY <1>1, <1>6 DEF Raise, RaisesOrdinary
  <1>7. CASE Answer(error, value) \/ Conclude(error, value) \/ NextCall(error, a)
    BY <1>3, <1>4, <1>5, <1>6, <1>7 DEF Answer, Conclude, NextCall
  <1>. QED  BY <1>2, <1>3, <1>4, <1>5, <1>6, <1>7

\* The errors of the helpers.
LEMMA OrdinaryErrors ==
  /\ None \notin Ordinary
  /\ {"UnboundName", "ReadOfMutablyBorrowed", "UnimplementedAstNode",
      "TypeMismatch", "InvalidOperation", "SymbolAlreadyDeclared",
      "AssignmentIsBorrowed", "MutationOfImmutable", "ImmutableAssignment",
      "IfElseTypeMismatch", "ArgumentCountMismatch"} \subseteq Ordinary
  /\ notBoolean \in Ordinary \cup {None}
  /\ notNumeric \in Ordinary \cup {None}
  /\ assignError \in Ordinary \cup {None}
  /\ argumentError \in Ordinary \cup {None, "ShortLivedBorrow"}
  /\ \A name : /\ checkValError(name) \in Ordinary \cup {None}
               /\ reassignError(name) \in Ordinary \cup {None}
               /\ compoundError(name) \in Ordinary \cup {None}
               /\ appError(name) \in Ordinary \cup {None}
  <1>1. /\ None \notin Ordinary
        /\ {"UnboundName", "ReadOfMutablyBorrowed", "UnimplementedAstNode",
            "TypeMismatch", "InvalidOperation", "SymbolAlreadyDeclared",
            "AssignmentIsBorrowed", "MutationOfImmutable", "ImmutableAssignment",
            "IfElseTypeMismatch", "ArgumentCountMismatch"} \subseteq Ordinary
    BY NoneAssumption DEF Ordinary, CompileErrors
  <1>2. /\ notBoolean \in Ordinary \cup {None}
        /\ notNumeric \in Ordinary \cup {None}
        /\ assignError \in Ordinary \cup {None}
        /\ argumentError \in Ordinary \cup {None, "ShortLivedBorrow"}
    BY <1>1 DEF notBoolean, notNumeric, assignError, argumentError
  <1>3. ASSUME NEW name
        PROVE  /\ checkValError(name) \in Ordinary \cup {None}
               /\ reassignError(name) \in Ordinary \cup {None}
               /\ compoundError(name) \in Ordinary \cup {None}
               /\ appError(name) \in Ordinary \cup {None}
    <2>1. checkValError(name) \in Ordinary \cup {None}
      BY <1>1 DEF checkValError
    <2>2. reassignError(name) \in Ordinary \cup {None}
      BY <1>1, <2>1 DEF reassignError
    <2>3. compoundError(name) \in Ordinary \cup {None}
      BY <1>1, <1>2, <2>1 DEF compoundError
    <2>4. appError(name) \in Ordinary \cup {None}
      BY <1>1 DEF appError
    <2>. QED  BY <2>1, <2>2, <2>3, <2>4
  <1>. QED  BY <1>1, <1>2, <1>3

\* The two borrow checks.
LEMMA OrdinaryBorrowErrors ==
  ASSUME CheckerInv, mode = "check", NEW name \in Names
  PROVE  /\ borrowError(name) \in Ordinary \cup {None}
         /\ borrowMutError(name) \in Ordinary \cup {None}
  <1>1. CASE ~Bound(name)
    BY <1>1, OrdinaryErrors DEF borrowError, borrowMutError, checkValError
  <1>2. CASE Bound(name)
    <2>. DEFINE symbol == lookup(name)
    <2>1. /\ Home(name) \in DOMAIN frames
          /\ frames[Home(name)][name] # None
          /\ symbol = frames[Home(name)][name]
      BY <1>2, HomeBinds DEF CheckerInv, EnvInv
    <2>. HIDE DEF symbol
    <2>2. /\ frames \in Seq(Frame)
          /\ symbol.declaration_lifetime = Home(name) - 1
      BY <2>1 DEF CheckerInv, EnvInv, EnvTypeOK, Sound
    <2>3. ~(symbol.declaration_lifetime > currentLifetime)
      BY <2>1, <2>2 DEF currentLifetime
    <2>4. /\ borrowError(name) \in Ordinary \cup {None}
          /\ borrowMutError(name) \in Ordinary \cup {None}
      <3>1. checkValError(name) \in Ordinary \cup {None}
        BY OrdinaryErrors
      <3>2. CASE checkValError(name) # None
        BY <3>1, <3>2 DEF borrowError, borrowMutError
      <3>3. CASE checkValError(name) = None
        <4>1. symbol.active_mutable_borrow = None
          BY <1>2, <3>3, OrdinaryErrors DEF checkValError, symbol
        <4>2. incrementImmutableBorrowError(name) = None
          BY <1>2, <4>1 DEF incrementImmutableBorrowError, symbol
        <4>3. symbol.active_immutable_borrows = {} =>
                setMutableBorrowError(name) \in Ordinary \cup {None}
          BY <1>2, <4>1, OrdinaryErrors DEF setMutableBorrowError, symbol
        <4>. QED  BY <2>3, <3>3, <4>1, <4>2, <4>3, OrdinaryErrors
             DEF borrowError, borrowMutError, symbol
      <3>. QED  BY <3>2, <3>3
    <2>. QED  BY <2>4
  <1>. QED  BY <1>1, <1>2

\* One step for each action that can raise an error.
LEMMA NextRaisesOrdinary ==
  ASSUME CheckerInv, [Next]_vars
  PROVE  RaisesOrdinary
  <1>1. CASE UNCHANGED vars
    BY <1>1 DEF vars, RaisesOrdinary
  <1>2. CASE Leaf
    <2>1. CASE checkLit
      <3>1. PICK type \in Written : Return(Value(type))
        BY <2>1 DEF checkLit
      <3>. QED  BY <3>1, OrdinaryMoves
    <2>2. CASE Unimplemented \/ NotAVariable
      <3>1. Raise("UnimplementedAstNode") \/ Raise("InvalidOperation")
        BY <2>2 DEF Unimplemented, NotAVariable
      <3>. QED  BY <3>1, OrdinaryMoves, OrdinaryErrors
    <2>3. ASSUME NEW name \in Names, checkVal(name)
          PROVE  RaisesOrdinary
      <3>1. Answer(checkValError(name), Of(lookup(name)))
        BY <2>3 DEF checkVal
      <3>. QED  BY <3>1, OrdinaryMoves, OrdinaryErrors
    <2>4. ASSUME NEW name \in Names, checkBorrow(name)
          PROVE  RaisesOrdinary
      <3>1. Node("borrow") /\ Answer(borrowError(name), createRef(lookup(name).type_name))
        BY <2>4 DEF checkBorrow
      <3>2. borrowError(name) \in Ordinary \cup {None}
        BY <3>1, NodeFacts, OrdinaryBorrowErrors
      <3>. QED  BY <3>1, <3>2, OrdinaryMoves
    <2>5. ASSUME NEW name \in Names, checkBorrowMut(name)
          PROVE  RaisesOrdinary
      <3>1. /\ Node("borrow_mut")
            /\ Answer(borrowMutError(name), createRef(lookup(name).type_name))
        BY <2>5 DEF checkBorrowMut
      <3>2. borrowMutError(name) \in Ordinary \cup {None}
        BY <3>1, NodeFacts, OrdinaryBorrowErrors
      <3>. QED  BY <3>1, <3>2, OrdinaryMoves
    <2>. QED  BY <1>2, <2>1, <2>2, <2>3, <2>4, <2>5 DEF Leaf
  <1>3. CASE Operator
    <2>1. CASE checkLogic \/ checkComp \/ checkArith \/ CompFirst
      <3>1. \E a : Call(a) \/ Continue(a)
        BY <2>1 DEF checkLogic, checkComp, checkArith, CompFirst
      <3>. QED  BY <3>1, OrdinaryMoves
    <2>2. CASE LogicFirst \/ ArithFirst
      <3>1. \E a : NextCall(notBoolean, a) \/ NextCall(notNumeric, a)
        BY <2>2 DEF LogicFirst, ArithFirst
      <3>. QED  BY <3>1, OrdinaryMoves, OrdinaryErrors
    <2>3. CASE LogicSecond
      BY <2>3, OrdinaryMoves, OrdinaryErrors DEF LogicSecond
    <2>4. CASE CompSecond
      <3>. DEFINE error == IF top.type # result.type_name THEN "TypeMismatch"
                           ELSE IF top.type = "Undefined" THEN "InvalidOperation"
                           ELSE None
      <3>1. Conclude(error, Value("Bool"))
        BY <2>4 DEF CompSecond
      <3>2. error \in Ordinary \cup {None}
        BY OrdinaryErrors
      <3>. HIDE DEF error
      <3>. QED  BY <3>1, <3>2, OrdinaryMoves
    <2>5. CASE ArithSecond
      <3>. DEFINE error == IF notNumeric # None THEN notNumeric
                           ELSE IF top.type # result.type_name THEN "TypeMismatch"
                           ELSE IF top.int_only /\ ~isInteger(top.type)
                                  THEN "InvalidOperation"
                           ELSE None
      <3>1. Conclude(error, Value(result.type_name))
        BY <2>5 DEF ArithSecond
      <3>2. error \in Ordinary \cup {None}
        BY OrdinaryErrors
      <3>. HIDE DEF error
      <3>. QED  BY <3>1, <3>2, OrdinaryMoves
    <2>. QED  BY <1>3, <2>1, <2>2, <2>3, <2>4, <2>5 DEF Operator
  <1>4. CASE Statement
    <2>1. CASE checkSeq \/ SeqStatement \/ checkAssign \/ checkCompoundAssign
               \/ checkBlk \/ BlkBody \/ checkCond \/ CondCons
      <3>1. \E value, a : Call(a) \/ Continue(a) \/ Return(value) \/ Finish(value)
        BY <2>1 DEF checkSeq, SeqStatement, checkAssign, checkCompoundAssign,
                    checkBlk, BlkBody, checkCond, CondCons
      <3>. QED  BY <3>1, OrdinaryMoves
    <2>2. CASE AssignValue
      BY <2>2, OrdinaryMoves, OrdinaryErrors DEF AssignValue
    <2>3. ASSUME NEW name \in Names, checkReassign(name)
          PROVE  RaisesOrdinary
      <3>1. \E a : IF reassignError(name) = None THEN Call(a)
                   ELSE Raise(reassignError(name))
        BY <2>3 DEF checkReassign
      <3>. QED  BY <3>1, OrdinaryMoves, OrdinaryErrors
    <2>4. CASE ReassignValue \/ CondAlt
      <3>1. \E value : \E error \in {None, "TypeMismatch", "IfElseTypeMismatch"} :
              Conclude(error, value)
        <4>. DEFINE mismatch(e) == IF top.type # result.type_name THEN e ELSE None
        <4>1. \/ Conclude(mismatch("TypeMismatch"), unit)
              \/ Conclude(mismatch("IfElseTypeMismatch"), Value(top.type))
          BY <2>4 DEF ReassignValue, CondAlt
        <4>2. /\ mismatch("TypeMismatch") \in {None, "TypeMismatch"}
              /\ mismatch("IfElseTypeMismatch") \in {None, "IfElseTypeMismatch"}
          OBVIOUS
        <4>. HIDE DEF mismatch
        <4>. QED  BY <4>1, <4>2
      <3>. QED  BY <3>1, OrdinaryMoves, OrdinaryErrors
    <2>5. ASSUME NEW name \in Names, CompoundTarget(name)
          PROVE  RaisesOrdinary
      <3>1. Conclude(compoundError(name), unit)
        BY <2>5 DEF CompoundTarget
      <3>. QED  BY <3>1, OrdinaryMoves, OrdinaryErrors
    <2>6. CASE CondPred
      BY <2>6, OrdinaryMoves, OrdinaryErrors DEF CondPred
    <2>. QED  BY <1>4, <2>1, <2>2, <2>3, <2>4, <2>5, <2>6 DEF Statement
  <1>5. CASE Function
    <2>1. CASE checkFunc \/ FuncEnter \/ FuncParam \/ FuncBody
      <3>1. \/ Raise("SymbolAlreadyDeclared")
            \/ err' = err
            \/ \E value, a : Return(value) \/ Continue(a)
        BY <2>1 DEF checkFunc, FuncEnter, FuncParam, FuncBody
      <3>. QED  BY <3>1, OrdinaryMoves, OrdinaryErrors DEF RaisesOrdinary
    <2>2. CASE FuncReturn
      <3>. DEFINE error == IF top.type \in {None, result.type_name} THEN None
                           ELSE "TypeMismatch"
      <3>1. Conclude(error, unit)
        BY <2>2 DEF FuncReturn
      <3>2. error \in Ordinary \cup {None}
        BY OrdinaryErrors
      <3>. HIDE DEF error
      <3>. QED  BY <3>1, <3>2, OrdinaryMoves
    <2>3. ASSUME NEW name \in Names, checkApp(name)
          PROVE  RaisesOrdinary
      <3>1. \/ appError(name) # None /\ Raise(appError(name))
            \/ Raise("ArgumentCountMismatch")
            \/ \E value, a : Return(value) \/ Call(a)
        BY <2>3 DEF checkApp
      <3>. QED  BY <3>1, OrdinaryMoves, OrdinaryErrors
    <2>4. CASE AppArgument
      <3>1. /\ mode = "return" /\ top.site = "app"
            /\ \E value, a : NextCall(argumentError, a) \/ Conclude(argumentError, value)
        BY <2>4 DEF AppArgument, Resume
      <3>2. CASE argumentError = "ShortLivedBorrow"
        <4>1. Raise("ShortLivedBorrow")
          BY <3>1, <3>2, NoneAssumption DEF NextCall, Conclude, CompileErrors
        <4>. QED  BY <3>1, <4>1 DEF Raise, RaisesOrdinary
      <3>3. CASE argumentError # "ShortLivedBorrow"
        BY <3>1, <3>3, OrdinaryMoves, OrdinaryErrors
      <3>. QED  BY <3>2, <3>3
    <2>. QED  BY <1>5, <2>1, <2>2, <2>3, <2>4 DEF Function
  <1>6. CASE Control
    BY <1>6 DEF Control, Start, Unwind, Halt, deinit, Exit, Abort, Terminating,
                checker, vars, RaisesOrdinary
  <1>. QED  BY <1>1, <1>2, <1>3, <1>4, <1>5, <1>6 DEF Next

\* The conflict errors of the environment never reach the user, so that the
\* tests which expect them fail whatever program they check; and the lifetime
\* error only comes from an argument of a call (checkBorrow, checkBorrowMut,
\* checkApp).
THEOREM ErrorsRaised == Spec => RaisedErrors
  <1>1. CheckerInv /\ [Next]_vars => [RaisesOrdinary]_vars
    BY NextRaisesOrdinary
  <1>2. RaisesOrdinary =>
          (err' # err =>
             /\ err' \notin {"BorrowConflictMutable", "BorrowConflictImmutable"}
             /\ err' = "ShortLivedBorrow" => mode = "return" /\ top.site = "app")
    BY DEF RaisesOrdinary, Ordinary
  <1>. QED  BY <1>1, <1>2, CheckerInvInductive, PTL DEF Spec, RaisedErrors

-----------------------------------------------------------------------------
(***************************************************************************)
(* checkReassign and checkApp decide on a copy of a binding and then check *)
(* other expressions.  Whatever those do, what the copy says of the        *)
(* binding's type, mutability and signature stays true, and no scope       *)
(* around the one they are checked in borrows it: they can only declare    *)
(* names in frames that they push, and only borrow for that scope or for   *)
(* one they open.                                                          *)
(***************************************************************************)

-----------------------------------------------------------------------------
(* What a step leaves of the outer frames *)

\* The frames f and g agree, up to frame n, on which names are bound and to
\* what, and g has no borrow by a scope outside the n-th that f had not.
Same(old, new, n) ==
  /\ old = None <=> new = None
  /\ old # None =>
       /\ new.type_name = old.type_name
       /\ new.is_mut = old.is_mut
       /\ new.func_sig = old.func_sig
       /\ new.active_immutable_borrows \cap 0 .. (n - 2) \subseteq old.active_immutable_borrows
       /\ new.active_mutable_borrow \in 0 .. (n - 2) =>
            new.active_mutable_borrow = old.active_mutable_borrow

Undisturbed(f, g, n) ==
  \A i \in 1 .. n : \A name \in Names : Same(f[i][name], g[i][name], n)

LEMMA SameItself ==
  \A symbol, n : Same(symbol, symbol, n)
  BY DEF Same

LEMMA UnchangedUndisturbed ==
  ASSUME UNCHANGED frames, NEW n \in Nat
  PROVE  Undisturbed(frames, frames', n)
  BY SameItself DEF Undisturbed

LEMMA PushUndisturbed ==
  ASSUME EnvInv, pushFrame, NEW n \in Nat, n <= Len(frames)
  PROVE  Undisturbed(frames, frames', n)
  <1>1. frames \in Seq(Frame) /\ EmptyFrame \in Frame
    BY DEF EnvInv, EnvTypeOK, EmptyFrame, Frame
  <1>2. \A i \in 1 .. n : frames'[i] = frames[i]
    BY <1>1 DEF pushFrame
  <1>. QED  BY <1>2, SameItself DEF Undisturbed

LEMMA EndedSame ==
  ASSUME NEW symbol \in SymbolInfo, NEW ending, NEW n \in Nat
  PROVE  Same(symbol, EndLifetime(symbol, ending), n)
  <1>1. /\ EndLifetime(symbol, ending) \in SymbolInfo
        /\ EndLifetime(symbol, ending).type_name = symbol.type_name
        /\ EndLifetime(symbol, ending).is_mut = symbol.is_mut
        /\ EndLifetime(symbol, ending).func_sig = symbol.func_sig
        /\ EndLifetime(symbol, ending).active_immutable_borrows
             = symbol.active_immutable_borrows \ {ending}
        /\ EndLifetime(symbol, ending).active_mutable_borrow
             \in {None, symbol.active_mutable_borrow}
    BY DEF SymbolInfo, EndLifetime
  <1>2. None \notin 0 .. (n - 2)
    BY NoneAssumption
  <1>. QED  BY <1>1, <1>2, SymbolAssumption DEF Same

LEMMA PopUndisturbed ==
  ASSUME EnvInv, popFrame, frames # <<>>, NEW n \in Nat, n < Len(frames)
  PROVE  Undisturbed(frames, frames', n)
  <1>1. /\ Len(frames) \in Nat
        /\ \A i \in 1 .. (Len(frames) - 1) :
             i \in DOMAIN frames /\ frames'[i] = Released(frames[i], Len(frames) - 1)
    BY PoppedFrames DEF EnvInv
  <1>. SUFFICES ASSUME NEW i \in 1 .. n, NEW name \in Names
                PROVE  Same(frames[i][name], frames'[i][name], n)
    BY DEF Undisturbed
  <1>2. /\ i \in DOMAIN frames
        /\ frames'[i] = Released(frames[i], Len(frames) - 1)
    BY <1>1
  <1>3. /\ frames[i][name] = None => frames'[i][name] = None
        /\ frames[i][name] # None =>
             frames'[i][name] = EndLifetime(frames[i][name], Len(frames) - 1)
    BY <1>2 DEF Released
  <1>4. frames[i][name] # None => frames[i][name] \in SymbolInfo
    BY <1>2 DEF EnvInv, Sound
  <1>. QED  BY <1>3, <1>4, EndedSame, SameItself

LEMMA AddBindingUndisturbed ==
  ASSUME EnvInv, NEW called, NEW symbol, addBinding(called, symbol),
         NEW n \in Nat, n < Len(frames)
  PROVE  Undisturbed(frames, frames', n)
  <1>1. frames \in Seq(Frame)
    BY DEF EnvInv, EnvTypeOK
  <1>2. \A i \in 1 .. n : frames'[i] = frames[i]
    BY <1>1 DEF addBinding
  <1>. QED  BY <1>2, SameItself DEF Undisturbed

LEMMA UpdateUndisturbed ==
  ASSUME EnvInv, NEW home \in DOMAIN frames, NEW called \in Names, NEW symbol,
         NEW n \in Nat, Same(frames[home][called], symbol, n),
         frames' = [frames EXCEPT ![home][called] = symbol]
  PROVE  Undisturbed(frames, frames', n)
  <1>1. frames \in Seq(Frame)
    BY DEF EnvInv, EnvTypeOK
  <1>. SUFFICES ASSUME NEW i \in 1 .. n, NEW name \in Names
                PROVE  Same(frames[i][name], frames'[i][name], n)
    BY DEF Undisturbed
  <1>3. CASE i = home /\ name = called
    <2>1. frames[home] \in Frame
      BY <1>1
    <2>2. frames'[i][name] = symbol
      BY <1>3, <2>1 DEF Frame
    <2>. QED  BY <1>3, <2>2
  <1>4. CASE i # home
    <2>1. frames'[i] = frames[i]
      BY <1>1, <1>4
    <2>. QED  BY <2>1, SameItself
  <1>5. CASE i = home /\ name # called
    <2>1. frames'[i] = [frames[home] EXCEPT ![called] = symbol]
      BY <1>1, <1>5
    <2>2. frames'[i][name] = frames[i][name]
      BY <1>1, <1>5, <2>1 DEF Frame
    <2>. QED  BY <2>2, SameItself
  <1>. QED  BY <1>3, <1>4, <1>5

LEMMA FreedSame ==
  ASSUME NEW old, NEW new \in SymbolInfo, NEW buffer, NEW n \in Nat,
         Same(old, new, n), NEW freed \in CopyFreed(new, buffer)
  PROVE  Same(old, freed, n)
  <1>1. CASE freed = new
    BY <1>1
  <1>2. CASE freed # new
    <2>1. PICK read \in {new.active_immutable_borrows,
                         IF new.active_immutable_borrows = {} THEN {} ELSE {Poison}} :
            freed = [new EXCEPT !.active_immutable_borrows = read, !.buffer = "freed"]
      BY <1>2 DEF CopyFreed
    <2>2. freed \in SymbolInfo
      BY <2>1 DEF SymbolInfo
    <2>3. /\ freed.type_name = new.type_name
          /\ freed.is_mut = new.is_mut
          /\ freed.func_sig = new.func_sig
          /\ freed.active_immutable_borrows = read
          /\ freed.active_mutable_borrow = new.active_mutable_borrow
      BY <2>1 DEF SymbolInfo
    <2>4. read \cap 0 .. (n - 2) \subseteq new.active_immutable_borrows \cap 0 .. (n - 2)
      BY PoisonAssumption
    <2>5. freed # None /\ new # None
      BY <2>2, SymbolAssumption
    <2>. HIDE DEF CopyFreed
    <2>. QED  BY <2>3, <2>4, <2>5 DEF Same
  <1>. QED  BY <1>1, <1>2

LEMMA BorrowUndisturbed ==
  ASSUME EnvInv, NEW called \in Names,
         \/ incrementImmutableBorrow(called)
         \/ setMutableBorrow(called)
         \/ RefusedBorrow(called),
         NEW n \in Nat, n <= Len(frames)
  PROVE  Undisturbed(frames, frames', n)
  <1>. DEFINE depth  == Len(frames)
              symbol == lookup(called)
  <1>1. Bound(called)
    BY NoneAssumption DEF incrementImmutableBorrow, incrementImmutableBorrowError,
                          setMutableBorrow, setMutableBorrowError, RefusedBorrow,
                          CompileErrors
  <1>2. /\ Home(called) \in DOMAIN frames
        /\ frames[Home(called)][called] = symbol
        /\ symbol \in SymbolInfo
    BY <1>1, HomeBinds DEF EnvInv
  <1>3. depth \in Nat /\ depth - 1 \notin 0 .. (n - 2) /\ depth - 1 # None
    <2>1. depth \in Nat /\ Home(called) \in 1 .. depth
      BY <1>2 DEF EnvInv, EnvTypeOK
    <2>. HIDE DEF depth
    <2>2. n <= depth
      BY DEF depth
    <2>. QED  BY <2>1, <2>2, NoneAssumption
  <1>4. depth - 1 \in LifetimeId
    <2>1. depth \in Nat /\ Home(called) \in 1 .. depth
      BY <1>2 DEF EnvInv, EnvTypeOK
    <2>. QED  BY <2>1 DEF LifetimeId
  <1>. HIDE DEF symbol
  <1>5. CASE incrementImmutableBorrow(called)
    <2>. DEFINE new == Appended(symbol, depth - 1)
    <2>1. PICK freed \in CopyFreed(new, symbol.buffer) : Update(called, freed)
      BY <1>5 DEF incrementImmutableBorrow, currentLifetime, symbol
    <2>. HIDE DEF depth
    <2>2. /\ new \in SymbolInfo
          /\ new.type_name = symbol.type_name
          /\ new.is_mut = symbol.is_mut
          /\ new.func_sig = symbol.func_sig
          /\ new.active_immutable_borrows = symbol.active_immutable_borrows \cup {depth - 1}
          /\ new.active_mutable_borrow = symbol.active_mutable_borrow
      BY <1>2, <1>4 DEF Appended, SymbolInfo
    <2>. HIDE DEF new
    <2>3. Same(symbol, new, n)
      BY <1>2, <1>3, <2>2, SymbolAssumption DEF Same
    <2>4. Same(symbol, freed, n)
      BY <2>1, <2>2, <2>3, FreedSame
    <2>. QED  BY <1>2, <2>1, <2>4, UpdateUndisturbed DEF Update
  <1>6. CASE setMutableBorrow(called)
    <2>. DEFINE new == [symbol EXCEPT !.active_mutable_borrow = depth - 1]
    <2>1. PICK freed \in CopyFreed(new, symbol.buffer) : Update(called, freed)
      BY <1>6 DEF setMutableBorrow, currentLifetime, symbol
    <2>. HIDE DEF depth
    <2>2. /\ new \in SymbolInfo
          /\ new.type_name = symbol.type_name
          /\ new.is_mut = symbol.is_mut
          /\ new.func_sig = symbol.func_sig
          /\ new.active_immutable_borrows = symbol.active_immutable_borrows
          /\ new.active_mutable_borrow = depth - 1
      BY <1>2, <1>4 DEF SymbolInfo
    <2>. HIDE DEF new
    <2>3. Same(symbol, new, n)
      BY <1>2, <1>3, <2>2, SymbolAssumption DEF Same
    <2>4. Same(symbol, freed, n)
      BY <2>1, <2>2, <2>3, FreedSame
    <2>. QED  BY <1>2, <2>1, <2>4, UpdateUndisturbed DEF Update
  <1>7. CASE RefusedBorrow(called)
    <2>1. PICK freed \in CopyFreed(symbol, symbol.buffer) : Update(called, freed)
      BY <1>7 DEF RefusedBorrow, symbol
    <2>2. Same(symbol, freed, n)
      BY <1>2, <2>1, SameItself, FreedSame
    <2>. QED  BY <1>2, <2>1, <2>2, UpdateUndisturbed DEF Update
  <1>. QED  BY <1>5, <1>6, <1>7

-----------------------------------------------------------------------------
(* The scopes that the activations of a stack were called in *)

\* ScopeOf for any stack.
Scope(s, k) == Cardinality({j \in 1 .. (k - 1) : OwnsFrame(s[j])})

LEMMA ScopeBounds ==
  ASSUME NEW s \in Seq(Activation), NEW k \in DOMAIN s
  PROVE  /\ Scope(s, k) \in Nat
         /\ Scope(s, k) <= Open(s)
         /\ \A j \in k .. Len(s) : OwnsFrame(s[j]) => Scope(s, k) < Open(s)
  <1>. DEFINE below == {j \in 1 .. (k - 1) : OwnsFrame(s[j])}
  <1>1. below \in SUBSET Owned(s)
    BY DEF Owned
  <1>2. IsFiniteSet(Owned(s)) /\ Open(s) \in Nat
    BY OpenIsNat
  <1>3. /\ IsFiniteSet(below)
        /\ Cardinality(below) <= Open(s)
        /\ Open(s) = Cardinality(below) => Owned(s) = below
    BY <1>1, <1>2, FS_Subset DEF Open
  <1>4. Cardinality(below) \in Nat
    BY <1>3, FS_CardinalityType
  <1>5. ASSUME NEW j \in k .. Len(s), OwnsFrame(s[j])
        PROVE  j \in Owned(s) /\ j \notin below
    BY <1>5 DEF Owned
  <1>. HIDE DEF below
  <1>6. \A j \in k .. Len(s) : OwnsFrame(s[j]) => Cardinality(below) # Open(s)
    BY <1>3, <1>5
  <1>7. \A j \in k .. Len(s) : OwnsFrame(s[j]) => Cardinality(below) < Open(s)
    BY <1>2, <1>3, <1>4, <1>6
  <1>. QED  BY <1>3, <1>4, <1>7 DEF Scope, below

LEMMA ScopeAgrees ==
  ASSUME NEW s, NEW t, NEW k, \A j \in 1 .. (k - 1) : s[j] = t[j]
  PROVE  Scope(s, k) = Scope(t, k)
  <1>1. {j \in 1 .. (k - 1) : OwnsFrame(s[j])} = {j \in 1 .. (k - 1) : OwnsFrame(t[j])}
    OBVIOUS
  <1>. QED  BY <1>1 DEF Scope

\* An activation is called in the innermost scope.
LEMMA ScopeOfAppended ==
  ASSUME NEW s \in Seq(Activation), NEW a \in Activation
  PROVE  /\ Scope(Append(s, a), Len(s) + 1) = Open(s)
         /\ \A k \in DOMAIN s : Scope(Append(s, a), k) = Scope(s, k)
  <1>. DEFINE t == Append(s, a)
  <1>1. /\ \A j \in 1 .. Len(s) : t[j] = s[j]
        /\ Len(s) \in Nat /\ DOMAIN s = 1 .. Len(s)
    OBVIOUS
  <1>. HIDE DEF t
  <1>2. {j \in 1 .. ((Len(s) + 1) - 1) : OwnsFrame(t[j])} = Owned(s)
    BY <1>1 DEF Owned
  <1>3. Scope(t, Len(s) + 1) = Open(s)
    BY <1>2 DEF Scope, Open
  <1>4. ASSUME NEW k \in DOMAIN s
        PROVE  Scope(t, k) = Scope(s, k)
    <2>1. \A j \in 1 .. (k - 1) : t[j] = s[j]
      BY <1>1
    <2>. QED  BY <2>1, ScopeAgrees
  <1>. QED  BY <1>3, <1>4 DEF t

-----------------------------------------------------------------------------
(* Copies and the bindings they were made of *)

\* The activations that hold a copy of a binding.
HoldsCopy(a) == a.site \in {"reassign", "app"}

\* What the copy says is true of the symbol, in the n-th frame's scope.
TrueOf(a, symbol, n) ==
  /\ a.site = "reassign" =>
       /\ symbol.type_name = a.type
       /\ symbol.is_mut
       /\ symbol.active_immutable_borrows \cap 0 .. (n - 2) = {}
       /\ symbol.active_mutable_borrow \notin 0 .. (n - 2)
  /\ a.site = "app" =>
       /\ symbol.func_sig # None
       /\ symbol.func_sig.return_type = a.type
       /\ Len(a.params) <= Len(symbol.func_sig.params)
       /\ a.params = SubSeq(symbol.func_sig.params,
                            Len(symbol.func_sig.params) - Len(a.params) + 1,
                            Len(symbol.func_sig.params))

\* Frame h is the innermost one up to frame n that binds name.
Innermost(f, n, name, h) ==
  f[h][name] # None /\ \A j \in 1 .. n : f[j][name] # None => j <= h

Backed(a, f, n) ==
  /\ a.name \in Names
  /\ \E h \in 1 .. n : Innermost(f, n, a.name, h) /\ TrueOf(a, f[h][a.name], n)

CopiesValid(s, f) ==
  \A k \in DOMAIN s : HoldsCopy(s[k]) => Backed(s[k], f, Scope(s, k) + 1)

LEMMA BackedKept ==
  ASSUME NEW a, NEW f, NEW g, NEW n \in Nat, Backed(a, f, n), Undisturbed(f, g, n)
  PROVE  Backed(a, g, n)
  <1>1. PICK h \in 1 .. n : Innermost(f, n, a.name, h) /\ TrueOf(a, f[h][a.name], n)
    BY DEF Backed
  <1>2. a.name \in Names
    BY DEF Backed
  <1>3. \A j \in 1 .. n : Same(f[j][a.name], g[j][a.name], n)
    BY <1>2 DEF Undisturbed
  <1>4. \A j \in 1 .. n : f[j][a.name] = None <=> g[j][a.name] = None
    BY <1>3 DEF Same
  <1>5. Innermost(g, n, a.name, h)
    BY <1>1, <1>4 DEF Innermost
  <1>6. TrueOf(a, g[h][a.name], n)
    <2>. DEFINE old == f[h][a.name]
                new == g[h][a.name]
    <2>1. Same(old, new, n) /\ old # None /\ TrueOf(a, old, n)
      BY <1>1, <1>3 DEF Innermost
    <2>. HIDE DEF old, new
    <2>2. /\ new.type_name = old.type_name
          /\ new.is_mut = old.is_mut
          /\ new.func_sig = old.func_sig
          /\ new.active_immutable_borrows \cap 0 .. (n - 2)
               \subseteq old.active_immutable_borrows
          /\ new.active_mutable_borrow \in 0 .. (n - 2) =>
               new.active_mutable_borrow = old.active_mutable_borrow
      BY <2>1 DEF Same
    <2>3. TrueOf(a, new, n)
      BY <2>1, <2>2 DEF TrueOf
    <2>. QED  BY <2>3 DEF new
  <1>. QED  BY <1>2, <1>5, <1>6 DEF Backed

\* HomeAt chooses the innermost frame.
LEMMA HomeIsInnermost ==
  ASSUME CheckerInv, NEW k \in DOMAIN stack, HoldsCopy(stack[k]),
         CopiesValid(stack, frames)
  PROVE  /\ ScopeOf(k) \in Nat
         /\ TrueOf(stack[k], frames[HomeAt(ScopeOf(k), stack[k].name)][stack[k].name],
                   ScopeOf(k) + 1)
  <1>. DEFINE scope == ScopeOf(k)
              a     == stack[k]
  <1>1. /\ stack \in Seq(Activation)
        /\ frames \in Seq(Frame)
        /\ Open(stack) \in Nat
    BY OpenIsNat DEF CheckerInv, WellFormed, EnvInv, EnvTypeOK
  <1>2. scope = Scope(stack, k)
    BY DEF ScopeOf, Scope
  <1>3. scope \in Nat /\ scope <= Open(stack)
    BY <1>1, <1>2, ScopeBounds
  <1>4. Len(frames) = 1 + Open(stack)
    <2>1. stack # <<>>
      BY <1>1
    <2>. QED  BY <2>1 DEF CheckerInv
  <1>. HIDE DEF scope
  <1>5. 1 .. (scope + 1) \subseteq DOMAIN frames
    BY <1>1, <1>3, <1>4
  <1>6. PICK h \in 1 .. (scope + 1) : /\ Innermost(frames, scope + 1, a.name, h)
                                     /\ TrueOf(a, frames[h][a.name], scope + 1)
    BY <1>2 DEF CopiesValid, Backed
  <1>. DEFINE isHome(i) ==
         /\ Binds(i, a.name)
         /\ \A j \in 1 .. (scope + 1) : Binds(j, a.name) => j <= i
  <1>7. isHome(h)
    BY <1>5, <1>6 DEF Innermost, Binds
  <1>8. \A i \in 1 .. (scope + 1) : isHome(i) => i = h
    BY <1>3, <1>7
  <1>9. HomeAt(scope, a.name) = CHOOSE i \in 1 .. (scope + 1) : isHome(i)
    BY DEF HomeAt
  <1>. HIDE DEF isHome
  <1>10. HomeAt(scope, a.name) = h
    BY <1>7, <1>8, <1>9
  <1>. QED  BY <1>3, <1>6, <1>10 DEF scope

LEMMA CopiesImply ==
  ASSUME CheckerInv, CopiesValid(stack, frames)
  PROVE  TargetBindingIsKept /\ CallSignatureStaysValid
  <1>1. ASSUME NEW k \in DOMAIN stack, stack[k].site = "reassign"
        PROVE  LET scope  == ScopeOf(k)
                   target == frames[HomeAt(scope, stack[k].name)][stack[k].name]
               IN  /\ target.type_name = stack[k].type
                   /\ target.is_mut
                   /\ target.active_immutable_borrows \cap 0 .. (scope - 1) = {}
                   /\ target.active_mutable_borrow \notin 0 .. (scope - 1)
    <2>. DEFINE scope  == ScopeOf(k)
                target == frames[HomeAt(scope, stack[k].name)][stack[k].name]
    <2>1. scope \in Nat /\ TrueOf(stack[k], target, scope + 1)
      BY <1>1, HomeIsInnermost DEF HoldsCopy
    <2>. HIDE DEF scope, target
    <2>2. (scope + 1) - 2 = scope - 1
      BY <2>1
    <2>3. /\ target.type_name = stack[k].type
          /\ target.is_mut
          /\ target.active_immutable_borrows \cap 0 .. ((scope + 1) - 2) = {}
          /\ target.active_mutable_borrow \notin 0 .. ((scope + 1) - 2)
      BY <1>1, <2>1 DEF TrueOf
    <2>. QED  BY <2>2, <2>3 DEF scope, target
  <1>2. ASSUME NEW k \in DOMAIN stack, stack[k].site = "app"
        PROVE  LET signature == frames[HomeAt(ScopeOf(k), stack[k].name)][stack[k].name].func_sig
                   n         == Len(signature.params)
                   left      == Len(stack[k].params)
               IN  /\ signature # None
                   /\ signature.return_type = stack[k].type
                   /\ left <= n
                   /\ stack[k].params = SubSeq(signature.params, n - left + 1, n)
    <2>. DEFINE target == frames[HomeAt(ScopeOf(k), stack[k].name)][stack[k].name]
    <2>1. TrueOf(stack[k], target, ScopeOf(k) + 1)
      BY <1>2, HomeIsInnermost DEF HoldsCopy
    <2>. HIDE DEF target
    <2>2. /\ target.func_sig # None
          /\ target.func_sig.return_type = stack[k].type
          /\ Len(stack[k].params) <= Len(target.func_sig.params)
          /\ stack[k].params = SubSeq(target.func_sig.params,
                                 Len(target.func_sig.params) - Len(stack[k].params) + 1,
                                 Len(target.func_sig.params))
      BY <1>2, <2>1 DEF TrueOf
    <2>. QED  BY <2>2 DEF target
  <1>. QED  BY <1>1, <1>2 DEF TargetBindingIsKept, CallSignatureStaysValid

-----------------------------------------------------------------------------
(***************************************************************************)
(* Where a declaration can be checked.  Sequences are only bodies, so that *)
(* between a copy and any later declaration there is a frame that was      *)
(* pushed after the copy was made.                                         *)
(***************************************************************************)

Shape(s) ==
  \A k \in DOMAIN s :
    /\ s[k].site = "seq" => k = 1 \/ OwnsFrame(s[k - 1])
    /\ s[k].site = "assign" => k > 1 /\ s[k - 1].site = "seq"

\* Every copy is older than the innermost frame.
Sheltered ==
  \A k \in DOMAIN stack :
    HoldsCopy(stack[k]) => \E j \in k .. Len(stack) : OwnsFrame(stack[j])

LEMMA ShapeShelters ==
  ASSUME WellFormed(stack), Shape(stack), stack # <<>>,
         OwnsFrame(top) \/ top.site \in {"seq", "assign"}
  PROVE  Sheltered
  <1>. DEFINE n == Len(stack)
  <1>1. n \in Nat \ {0} /\ DOMAIN stack = 1 .. n /\ top = stack[n]
    BY DEF WellFormed, top
  <1>2. ASSUME NEW k \in 1 .. n
        PROVE  /\ stack[k].site = "seq" => k = 1 \/ OwnsFrame(stack[k - 1])
               /\ stack[k].site = "assign" => k > 1 /\ stack[k - 1].site = "seq"
    BY <1>1 DEF Shape
  <1>. SUFFICES ASSUME NEW k \in 1 .. n, HoldsCopy(stack[k])
                PROVE  \E j \in k .. n : OwnsFrame(stack[j])
    BY <1>1 DEF Sheltered
  <1>. HIDE DEF n
  <1>3. CASE OwnsFrame(top)
    BY <1>1, <1>3
  <1>4. ASSUME NEW m \in 1 .. n, stack[m].site = "seq", k <= m
        PROVE  \E j \in k .. n : OwnsFrame(stack[j])
    <2>1. k # m
      BY <1>4 DEF HoldsCopy
    <2>2. m - 1 \in k .. n /\ m # 1
      BY <1>1, <1>4, <2>1
    <2>3. OwnsFrame(stack[m - 1])
      BY <1>2, <1>4, <2>2
    <2>. QED  BY <2>2, <2>3
  <1>5. CASE top.site = "seq"
    BY <1>1, <1>4, <1>5
  <1>6. CASE top.site = "assign"
    <2>1. n > 1 /\ stack[n - 1].site = "seq" /\ k # n
      BY <1>1, <1>2, <1>6 DEF HoldsCopy
    <2>2. n - 1 \in 1 .. n /\ k <= n - 1
      BY <1>1, <2>1
    <2>. QED  BY <1>4, <2>1, <2>2
  <1>. QED  BY <1>3, <1>5, <1>6

\* A step that leaves the frames up to that of every copy as they are.
Calm ==
  \A k \in DOMAIN stack :
    HoldsCopy(stack[k]) => Undisturbed(frames, frames', Scope(stack, k) + 1)

LEMMA CalmSteps ==
  ASSUME CheckerInv
  PROVE  /\ UNCHANGED frames => Calm
         /\ pushFrame => Calm
         /\ \A name \in Names : (\/ incrementImmutableBorrow(name)
                               \/ setMutableBorrow(name)
                               \/ RefusedBorrow(name)) => Calm
         /\ Sheltered /\ popFrame /\ frames # <<>> => Calm
         /\ Sheltered => \A name, symbol : addBinding(name, symbol) => Calm
  <1>1. /\ EnvInv
        /\ stack \in Seq(Activation)
        /\ Len(frames) \in Nat
        /\ Open(stack) \in Nat
    BY Lengths, OpenIsNat DEF CheckerInv, WellFormed
  <1>2. ASSUME NEW k \in DOMAIN stack
        PROVE  /\ Scope(stack, k) + 1 \in Nat
               /\ Scope(stack, k) + 1 <= Len(frames)
               /\ Sheltered /\ HoldsCopy(stack[k]) => Scope(stack, k) + 1 < Len(frames)
    <2>1. /\ Scope(stack, k) \in Nat
          /\ Scope(stack, k) <= Open(stack)
          /\ \A j \in k .. Len(stack) : OwnsFrame(stack[j]) => Scope(stack, k) < Open(stack)
      BY <1>1, ScopeBounds
    <2>2. stack # <<>>
      BY <1>1
    <2>3. Len(frames) = 1 + Open(stack)
      BY <2>2 DEF CheckerInv
    <2>4. Sheltered /\ HoldsCopy(stack[k]) => Scope(stack, k) < Open(stack)
      BY <2>1 DEF Sheltered
    <2>. QED  BY <1>1, <2>1, <2>3, <2>4
  <1>3. UNCHANGED frames => Calm
    BY <1>2, UnchangedUndisturbed DEF Calm
  <1>4. pushFrame => Calm
    BY <1>1, <1>2, PushUndisturbed DEF Calm
  <1>5. \A name \in Names : (\/ incrementImmutableBorrow(name)
                         \/ setMutableBorrow(name)
                         \/ RefusedBorrow(name)) => Calm
    BY <1>1, <1>2, BorrowUndisturbed DEF Calm
  <1>6. Sheltered /\ popFrame /\ frames # <<>> => Calm
    BY <1>1, <1>2, PopUndisturbed DEF Calm
  <1>7. Sheltered => \A name, symbol : addBinding(name, symbol) => Calm
    BY <1>1, <1>2, AddBindingUndisturbed DEF Calm
  <1>. QED  BY <1>3, <1>4, <1>5, <1>6, <1>7

-----------------------------------------------------------------------------
(* How a step moves the stack *)

\* An activation that may be pushed on the stack, or replace its top.
Fits(a) ==
  /\ a \in Activation
  /\ a.site = "seq" => stack = <<>> \/ OwnsFrame(top)
  /\ a.site = "assign" => stack # <<>> /\ top.site = "seq"
  /\ HoldsCopy(a) => Backed(a, frames', Open(stack) + 1)

Follows(a) ==
  /\ a \in Activation
  /\ a.site \in {"seq", "assign"} => a.site = top.site
  /\ HoldsCopy(a) => Backed(a, frames', Open(callers) + 1)

Moved ==
  \/ stack' = stack
  \/ stack # <<>> /\ stack' = callers
  \/ \E a : stack' = Append(stack, a) /\ Fits(a)
  \/ stack # <<>> /\ \E a : stack' = Append(callers, a) /\ Follows(a)

CopiesInv == CheckerInv /\ Shape(stack) /\ CopiesValid(stack, frames)

\* A stack whose activations up to the m-th are those of stack.
LEMMA PrefixKeeps ==
  ASSUME CopiesInv, Calm, NEW s, NEW k \in DOMAIN stack,
         \A j \in 1 .. k : s[j] = stack[j]
  PROVE  HoldsCopy(s[k]) => Backed(s[k], frames', Scope(s, k) + 1)
  <1>. SUFFICES ASSUME HoldsCopy(s[k]) PROVE Backed(s[k], frames', Scope(s, k) + 1)
    OBVIOUS
  <1>1. stack \in Seq(Activation)
    BY DEF CopiesInv, CheckerInv, WellFormed
  <1>2. k \in 1 .. k /\ k \in Nat /\ 1 .. (k - 1) \subseteq 1 .. k
    BY <1>1
  <1>3. s[k] = stack[k] /\ \A j \in 1 .. (k - 1) : s[j] = stack[j]
    BY <1>2
  <1>4. Scope(s, k) = Scope(stack, k)
    BY <1>3, ScopeAgrees
  <1>5. Scope(stack, k) + 1 \in Nat
    BY <1>1, ScopeBounds
  <1>6. /\ Backed(stack[k], frames, Scope(stack, k) + 1)
        /\ Undisturbed(frames, frames', Scope(stack, k) + 1)
    BY <1>3 DEF CopiesInv, CopiesValid, Calm
  <1>. QED  BY <1>3, <1>4, <1>5, <1>6, BackedKept

\* A stack that ends in a new activation.
LEMMA AppendKeeps ==
  ASSUME CopiesInv, Calm, NEW s \in Seq(Activation), Len(s) <= Len(stack),
         \A j \in DOMAIN s : s[j] = stack[j],
         NEW a \in Activation,
         a.site = "seq" => s = <<>> \/ OwnsFrame(s[Len(s)]),
         a.site = "assign" => s # <<>> /\ s[Len(s)].site = "seq",
         HoldsCopy(a) => Backed(a, frames', Open(s) + 1)
  PROVE  Shape(Append(s, a)) /\ CopiesValid(Append(s, a), frames')
  <1>. DEFINE t == Append(s, a)
              m == Len(s)
  <1>1. /\ m \in Nat /\ DOMAIN s = 1 .. m /\ DOMAIN t = 1 .. (m + 1)
        /\ \A j \in 1 .. m : t[j] = s[j]
        /\ t[m + 1] = a
        /\ s # <<>> => m # 0
    OBVIOUS
  <1>2. stack \in Seq(Activation) /\ Len(stack) \in Nat
    BY DEF CopiesInv, CheckerInv, WellFormed
  <1>. HIDE DEF t
  <1>3. \A j \in 1 .. m : j \in DOMAIN stack /\ t[j] = stack[j]
    BY <1>1, <1>2
  <1>4. Scope(t, m + 1) = Open(s)
    BY ScopeOfAppended DEF t
  <1>. DEFINE shaped(k) ==
         /\ t[k].site = "seq" => k = 1 \/ OwnsFrame(t[k - 1])
         /\ t[k].site = "assign" => k > 1 /\ t[k - 1].site = "seq"
  <1>5. ASSUME NEW k \in 1 .. m
        PROVE  shaped(k)
    <2>1. /\ stack[k].site = "seq" => k = 1 \/ OwnsFrame(stack[k - 1])
          /\ stack[k].site = "assign" => k > 1 /\ stack[k - 1].site = "seq"
      BY <1>3 DEF CopiesInv, Shape
    <2>2. k > 1 => k - 1 \in 1 .. m
      BY <1>1
    <2>3. t[k] = stack[k] /\ (k > 1 => t[k - 1] = stack[k - 1])
      BY <1>3, <2>2
    <2>4. k = 1 \/ k > 1
      BY <1>1
    <2>. QED  BY <2>1, <2>3, <2>4
  <1>6. shaped(m + 1)
    <2>1. m # 0 => m \in 1 .. m /\ t[m] = s[m]
      BY <1>1
    <2>2. (m + 1) - 1 = m /\ (m + 1 = 1 \/ m + 1 > 1)
      BY <1>1
    <2>3. s = <<>> => m + 1 = 1
      OBVIOUS
    <2>4. m + 1 > 1 <=> m # 0
      BY <1>1
    <2>. HIDE DEF m
    <2>5. s[m] = s[Len(s)]
      BY DEF m
    <2>6. a.site = "seq" => m + 1 = 1 \/ OwnsFrame(t[(m + 1) - 1])
      BY <1>1, <2>1, <2>2, <2>3, <2>5
    <2>7. a.site = "assign" => m + 1 > 1 /\ t[(m + 1) - 1].site = "seq"
      BY <1>1, <2>1, <2>2, <2>4, <2>5
    <2>. QED  BY <1>1, <2>6, <2>7
  <1>7. \A k \in DOMAIN t : shaped(k)
    <2>. HIDE DEF shaped, m
    <2>. QED  BY <1>1, <1>5, <1>6
  <1>8. ASSUME NEW k \in 1 .. m
        PROVE  HoldsCopy(t[k]) => Backed(t[k], frames', Scope(t, k) + 1)
    <2>1. k \in DOMAIN stack /\ \A j \in 1 .. k : t[j] = stack[j]
      BY <1>1, <1>3
    <2>. QED  BY <2>1, PrefixKeeps
  <1>9. HoldsCopy(t[m + 1]) => Backed(t[m + 1], frames', Scope(t, m + 1) + 1)
    BY <1>1, <1>4
  <1>10. \A k \in DOMAIN t : HoldsCopy(t[k]) => Backed(t[k], frames', Scope(t, k) + 1)
    <2>. HIDE DEF m
    <2>. QED  BY <1>1, <1>8, <1>9
  <1>. QED  BY <1>7, <1>10 DEF Shape, CopiesValid, t

LEMMA MoveKeeps ==
  ASSUME CopiesInv, Calm, Moved
  PROVE  Shape(stack') /\ CopiesValid(stack', frames')
  <1>1. WellFormed(stack) /\ stack \in Seq(Activation) /\ Len(stack) \in Nat
    BY DEF CopiesInv, CheckerInv, WellFormed
  <1>2. CASE stack' = stack
    <2>1. \A k \in DOMAIN stack :
            HoldsCopy(stack[k]) => Backed(stack[k], frames', Scope(stack, k) + 1)
      BY PrefixKeeps
    <2>. QED  BY <1>2, <2>1 DEF CopiesInv, CopiesValid
  <1>3. ASSUME stack # <<>>
        PROVE  /\ callers \in Seq(Activation)
               /\ Len(callers) = Len(stack) - 1
               /\ DOMAIN callers = 1 .. (Len(stack) - 1)
               /\ \A j \in DOMAIN callers : callers[j] = stack[j]
               /\ Len(stack) > 0
    <2>1. WellFormed(callers) /\ stack = Append(callers, top) /\ top \in Activation
      BY <1>1, <1>3, StackParts
    <2>. HIDE DEF callers, top
    <2>2. callers \in Seq(Activation)
      BY <2>1 DEF WellFormed
    <2>. QED  BY <2>1, <2>2
  <1>4. CASE stack # <<>> /\ stack' = callers
    <2>. DEFINE s == callers
    <2>1. /\ DOMAIN s = 1 .. (Len(stack) - 1)
          /\ \A j \in DOMAIN s : j \in DOMAIN stack /\ s[j] = stack[j]
      BY <1>1, <1>3, <1>4
    <2>. HIDE DEF s
    <2>2. ASSUME NEW k \in DOMAIN s
          PROVE  HoldsCopy(s[k]) => Backed(s[k], frames', Scope(s, k) + 1)
      <3>1. \A j \in 1 .. k : j \in DOMAIN s
        BY <1>1, <2>1
      <3>. QED  BY <2>1, <3>1, PrefixKeeps
    <2>3. ASSUME NEW k \in DOMAIN s
          PROVE  /\ s[k].site = "seq" => k = 1 \/ OwnsFrame(s[k - 1])
                 /\ s[k].site = "assign" => k > 1 /\ s[k - 1].site = "seq"
      <3>1. /\ stack[k].site = "seq" => k = 1 \/ OwnsFrame(stack[k - 1])
            /\ stack[k].site = "assign" => k > 1 /\ stack[k - 1].site = "seq"
        BY <2>1 DEF CopiesInv, Shape
      <3>2. k = 1 \/ (k > 1 /\ k - 1 \in DOMAIN s)
        BY <1>1, <2>1
      <3>. QED  BY <2>1, <3>1, <3>2
    <2>. QED  BY <1>4, <2>2, <2>3 DEF Shape, CopiesValid, s
  <1>5. ASSUME NEW a, stack' = Append(stack, a), Fits(a)
        PROVE  Shape(stack') /\ CopiesValid(stack', frames')
    <2>1. /\ a \in Activation
          /\ a.site = "seq" => stack = <<>> \/ OwnsFrame(stack[Len(stack)])
          /\ a.site = "assign" => stack # <<>> /\ stack[Len(stack)].site = "seq"
          /\ HoldsCopy(a) => Backed(a, frames', Open(stack) + 1)
      BY <1>5 DEF Fits, top
    <2>2. Shape(Append(stack, a)) /\ CopiesValid(Append(stack, a), frames')
      BY <1>1, <2>1, AppendKeeps
    <2>. QED  BY <1>5, <2>2
  <1>6. ASSUME stack # <<>>, NEW a, stack' = Append(callers, a), Follows(a)
        PROVE  Shape(stack') /\ CopiesValid(stack', frames')
    <2>. DEFINE s == callers
                n == Len(stack)
    <2>1. /\ s \in Seq(Activation) /\ Len(s) = n - 1 /\ n \in Nat /\ n > 0
          /\ DOMAIN s = 1 .. (n - 1)
          /\ \A j \in DOMAIN s : s[j] = stack[j]
      BY <1>1, <1>3, <1>6
    <2>2. /\ stack[n].site = "seq" => n = 1 \/ OwnsFrame(stack[n - 1])
          /\ stack[n].site = "assign" => n > 1 /\ stack[n - 1].site = "seq"
      <3>1. n \in DOMAIN stack /\ Shape(stack)
        BY <1>1, <2>1 DEF CopiesInv
      <3>. HIDE DEF n
      <3>. QED  BY <3>1 DEF Shape
    <2>3. /\ a \in Activation
          /\ a.site \in {"seq", "assign"} => a.site = stack[n].site
          /\ HoldsCopy(a) => Backed(a, frames', Open(s) + 1)
      BY <1>6 DEF Follows, top
    <2>. HIDE DEF s, n
    <2>4. n = 1 => s = <<>>
      BY <2>1
    <2>5. n > 1 => s # <<>> /\ s[Len(s)] = stack[n - 1]
      BY <2>1
    <2>6. n = 1 \/ n > 1
      BY <2>1
    <2>7. /\ a.site = "seq" => s = <<>> \/ OwnsFrame(s[Len(s)])
          /\ a.site = "assign" => s # <<>> /\ s[Len(s)].site = "seq"
      BY <2>2, <2>3, <2>4, <2>5, <2>6
    <2>8. Len(s) <= Len(stack)
      BY <2>1 DEF n
    <2>9. Shape(Append(s, a)) /\ CopiesValid(Append(s, a), frames')
      BY <2>1, <2>3, <2>7, <2>8, AppendKeeps
    <2>. QED  BY <1>6, <2>9 DEF s
  <1>. QED  BY <1>2, <1>4, <1>5, <1>6 DEF Moved

-----------------------------------------------------------------------------
(* The steps that make no copy *)

\* The activations that may be called from anywhere.
Quiet(a) ==
  a \in Activation /\ a.site \notin {"seq", "assign", "reassign", "app"}

LEMMA QuietMoves ==
  ASSUME NEW value, NEW error,
         NEW a, stack # <<>> => Quiet(a) \/ (a = top /\ a \in Activation /\ ~HoldsCopy(a)),
         \/ stack' = stack
         \/ Return(value) \/ Raise(error) \/ Answer(error, value)
         \/ Quiet(a) /\ (Call(a) \/ stack' = Append(stack, a))
         \/ stack # <<>> /\ (stack' = callers \/ stack' = Append(callers, a))
         \/ stack # <<>> /\ (Finish(value) \/ Continue(a))
         \/ stack # <<>> /\ (Conclude(error, value) \/ NextCall(error, a))
  PROVE  Moved
  <1>1. Quiet(a) => Fits(a)
    BY DEF Quiet, Fits, HoldsCopy
  <1>2. stack # <<>> => Follows(a)
    BY DEF Quiet, Follows, HoldsCopy
  <1>3. \/ stack' = stack
        \/ Quiet(a) /\ stack' = Append(stack, a)
        \/ stack # <<>> /\ (stack' = callers \/ stack' = Append(callers, a))
    <2>1. CASE Return(value) \/ Raise(error) \/ Answer(error, value)
      BY <2>1 DEF Return, Raise, Answer
    <2>2. CASE Quiet(a) /\ (Call(a) \/ stack' = Append(stack, a))
      BY <2>2 DEF Call
    <2>3. CASE stack # <<>> /\ (Finish(value) \/ Continue(a))
      BY <2>3 DEF Finish, Continue
    <2>4. CASE stack # <<>> /\ (Conclude(error, value) \/ NextCall(error, a))
      BY <2>4 DEF Conclude, NextCall, Finish, Continue, Raise
    <2>. QED  BY <2>1, <2>2, <2>3, <2>4
  <1>. QED  BY <1>1, <1>2, <1>3 DEF Moved

\* What the grammar says of where a node may stand.
LEMMA WhereNodesStand ==
  /\ Node("seq") => stack = <<>> \/ OwnsFrame(top)
  /\ Node("assign") => stack # <<>> /\ top.site = "seq"
  /\ Node("fun") => stack # <<>> /\ top.site = "seq"
  <1>1. /\ "seq" \notin Expressions /\ "assign" \notin Expressions
        /\ "fun" \notin Expressions
    BY DEF Expressions
  <1>2. "seq" \in Expected => stack = <<>> \/ top.site \in {"blk", "fun"}
    BY <1>1 DEF Expected
  <1>3. "assign" \in Expected => stack # <<>> /\ top.site = "seq"
    BY <1>1 DEF Expected
  <1>4. "fun" \in Expected => stack # <<>> /\ top.site = "seq"
    BY <1>1 DEF Expected
  <1>. QED  BY <1>2, <1>3, <1>4 DEF Node, OwnsFrame

LEMMA LeafMoves ==
  ASSUME CopiesInv, Leaf
  PROVE  Calm /\ Moved
  <1>1. CASE checkLit
    <2>1. UNCHANGED frames /\ stack' = stack
      BY <1>1 DEF checkLit, Return
    <2>. QED  BY <2>1, CalmSteps DEF CopiesInv, Moved
  <1>2. CASE Unimplemented \/ NotAVariable
    <2>1. UNCHANGED frames /\ stack' = stack
      BY <1>2 DEF Unimplemented, NotAVariable, Raise
    <2>. QED  BY <2>1, CalmSteps DEF CopiesInv, Moved
  <1>3. ASSUME NEW name \in Names, checkVal(name)
        PROVE  Calm /\ Moved
    <2>1. UNCHANGED frames /\ stack' = stack
      BY <1>3 DEF checkVal, Answer, Return, Raise
    <2>. QED  BY <2>1, CalmSteps DEF CopiesInv, Moved
  <1>4. ASSUME NEW name \in Names, checkBorrow(name)
        PROVE  Calm /\ Moved
    <2>1. /\ stack' = stack
          /\ \/ incrementImmutableBorrow(name)
             \/ RefusedBorrow(name)
             \/ UNCHANGED frames
      BY <1>4 DEF checkBorrow, Answer, Return, Raise
    <2>. QED  BY <2>1, CalmSteps DEF CopiesInv, Moved
  <1>5. ASSUME NEW name \in Names, checkBorrowMut(name)
        PROVE  Calm /\ Moved
    <2>1. /\ stack' = stack
          /\ \/ setMutableBorrow(name)
             \/ RefusedBorrow(name)
             \/ UNCHANGED frames
      BY <1>5 DEF checkBorrowMut, Answer, Return, Raise
    <2>. QED  BY <2>1, CalmSteps DEF CopiesInv, Moved
  <1>. QED  BY <1>1, <1>2, <1>3, <1>4, <1>5 DEF Leaf

LEMMA OperatorMoves ==
  ASSUME CopiesInv, Operator
  PROVE  Calm /\ Moved
  <1>1. Calm
    <2>1. UNCHANGED frames
      BY DEF Operator, checkLogic, LogicFirst, LogicSecond, checkComp, CompFirst,
             CompSecond, checkArith, ArithFirst, ArithSecond
    <2>. QED  BY <2>1, CalmSteps DEF CopiesInv
  <1>2. \A site : Resume(site) => Resumed(site)
    BY ResumeFacts DEF CopiesInv
  <1>3. \A site \in {"logic first", "logic second", "comp first", "comp second",
                   "arith first", "arith second"} : Quiet(At(site))
    BY AtIsActivation DEF Quiet, Sites
  <1>4. CASE checkLogic \/ checkComp
    <2>1. Call(At("logic first")) \/ Call(At("comp first"))
      BY <1>4 DEF checkLogic, checkComp
    <2>. QED  BY <1>1, <1>3, <2>1, QuietMoves
  <1>5. CASE LogicFirst
    <2>1. stack # <<>> /\ NextCall(notBoolean, At("logic second"))
      BY <1>5 DEF LogicFirst, Resume
    <2>. QED  BY <1>1, <1>3, <2>1, QuietMoves
  <1>6. CASE LogicSecond
    <2>1. stack # <<>> /\ Conclude(notBoolean, Value("Bool"))
      BY <1>6 DEF LogicSecond, Resume
    <2>. QED  BY <1>1, <1>3, <2>1, QuietMoves
  <1>7. CASE CompFirst
    <2>. DEFINE b == At("comp second")
                a == [b EXCEPT !.type = result.type_name]
    <2>1. Resume("comp first") /\ Continue(a)
      BY <1>7 DEF CompFirst
    <2>2. stack # <<>> /\ result.type_name \in Types
      BY <1>2, <2>1 DEF Resumed
    <2>3. b \in Activation /\ b.site = "comp second"
      BY AtIsActivation DEF Sites
    <2>. HIDE DEF b
    <2>4. Quiet(a)
      BY <2>2, <2>3, WithLocals DEF Quiet
    <2>. HIDE DEF a
    <2>. QED  BY <1>1, <2>1, <2>2, <2>4, QuietMoves
  <1>8. CASE CompSecond
    <2>1. stack # <<>> /\ \E error : Conclude(error, Value("Bool"))
      BY <1>8 DEF CompSecond, Resume
    <2>. QED  BY <1>1, <1>3, <2>1, QuietMoves
  <1>9. CASE checkArith
    <2>. DEFINE b == At("arith first")
                a(flag) == [b EXCEPT !.int_only = flag]
    <2>1. PICK flag \in BOOLEAN : Call(a(flag))
      BY <1>9 DEF checkArith
    <2>2. b \in Activation /\ b.site = "arith first"
      BY AtIsActivation DEF Sites
    <2>. HIDE DEF b
    <2>3. Quiet(a(flag))
      BY <2>2, WithLocals DEF Quiet
    <2>. HIDE DEF a
    <2>. QED  BY <1>1, <2>1, <2>3, QuietMoves
  <1>10. CASE ArithFirst
    <2>. DEFINE a == [top EXCEPT !.site = "arith second", !.type = result.type_name]
    <2>1. Resume("arith first") /\ NextCall(notNumeric, a)
      BY <1>10 DEF ArithFirst
    <2>2. stack # <<>> /\ result.type_name \in Types /\ top \in Activation
      BY <1>2, <2>1 DEF Resumed
    <2>3. Quiet(a)
      BY <2>2 DEF Quiet, Activation, Sites
    <2>. HIDE DEF a
    <2>. QED  BY <1>1, <2>1, <2>2, <2>3, QuietMoves
  <1>11. CASE ArithSecond
    <2>1. stack # <<>> /\ \E error : Conclude(error, Value(result.type_name))
      BY <1>11 DEF ArithSecond, Resume
    <2>. QED  BY <1>1, <1>3, <2>1, QuietMoves
  <1>. QED  BY <1>4, <1>5, <1>6, <1>7, <1>8, <1>9, <1>10, <1>11 DEF Operator

LEMMA CondMoves ==
  ASSUME CopiesInv, checkCond \/ CondPred \/ CondCons \/ CondAlt
  PROVE  Calm /\ Moved
  <1>1. Calm
    <2>1. UNCHANGED frames
      BY DEF checkCond, CondPred, CondCons, CondAlt
    <2>. QED  BY <2>1, CalmSteps DEF CopiesInv
  <1>2. \A site \in {"cond pred", "cond cons", "cond alt"} : Quiet(At(site))
    BY AtIsActivation DEF Quiet, Sites
  <1>3. CASE checkCond
    <2>1. Call(At("cond pred"))
      BY <1>3 DEF checkCond
    <2>. QED  BY <1>1, <1>2, <2>1, QuietMoves
  <1>4. CASE CondPred
    <2>1. stack # <<>> /\ NextCall(notBoolean, At("cond cons"))
      BY <1>4 DEF CondPred, Resume
    <2>. QED  BY <1>1, <1>2, <2>1, QuietMoves
  <1>5. CASE CondCons
    <2>. DEFINE b == At("cond alt")
                a == [b EXCEPT !.type = result.type_name]
    <2>1. Resume("cond cons") /\ (Continue(a) \/ Finish(unit))
      BY <1>5 DEF CondCons
    <2>2. stack # <<>> /\ result.type_name \in Types
      BY <2>1, ResumeFacts DEF Resumed, CopiesInv
    <2>3. b \in Activation /\ b.site = "cond alt"
      BY AtIsActivation DEF Sites
    <2>. HIDE DEF b
    <2>4. Quiet(a)
      BY <2>2, <2>3, WithLocals DEF Quiet
    <2>. HIDE DEF a
    <2>. QED  BY <1>1, <2>1, <2>2, <2>4, QuietMoves
  <1>6. CASE CondAlt
    <2>1. stack # <<>> /\ \E error : Conclude(error, Value(top.type))
      BY <1>6 DEF CondAlt, Resume
    <2>. QED  BY <1>1, <1>2, <2>1, QuietMoves
  <1>. QED  BY <1>3, <1>4, <1>5, <1>6

LEMMA SequenceMoves ==
  ASSUME CopiesInv,
         \/ checkSeq \/ SeqStatement \/ checkAssign
         \/ checkCompoundAssign
         \/ \E name \in Names : CompoundTarget(name)
         \/ ReassignValue
  PROVE  Calm /\ Moved
  <1>1. Calm
    <2>1. UNCHANGED frames
      BY DEF checkSeq, SeqStatement, checkAssign, checkCompoundAssign, CompoundTarget,
             ReassignValue
    <2>. QED  BY <2>1, CalmSteps DEF CopiesInv
  <1>2. Quiet(At("compound"))
    BY AtIsActivation DEF Quiet, Sites
  <1>3. CASE checkSeq
    <2>. DEFINE a == At("seq")
    <2>1. Node("seq") /\ (stack' = stack \/ stack' = Append(stack, a))
      BY <1>3 DEF checkSeq, Return, Call
    <2>2. a \in Activation /\ a.site = "seq"
      BY AtIsActivation DEF Sites
    <2>. HIDE DEF a
    <2>3. Fits(a)
      BY <2>1, <2>2, WhereNodesStand DEF Fits, HoldsCopy
    <2>. QED  BY <1>1, <2>1, <2>3 DEF Moved
  <1>4. CASE SeqStatement
    <2>1. Resume("seq") /\ (Finish(result) \/ Continue(top))
      BY <1>4 DEF SeqStatement
    <2>2. stack # <<>> /\ top \in Activation /\ ~HoldsCopy(top)
      BY <2>1, ResumeFacts DEF Resumed, CopiesInv, HoldsCopy
    <2>. QED  BY <1>1, <2>1, <2>2, QuietMoves
  <1>5. CASE checkAssign
    <2>. DEFINE b == At("assign")
                a(name, mutable, annotation) ==
                  [b EXCEPT !.name = name, !.is_mut = mutable, !.type = annotation]
    <2>1. PICK name \in Names, mutable \in BOOLEAN, annotation \in Written \cup {None} :
            Call(a(name, mutable, annotation))
      BY <1>5 DEF checkAssign
    <2>2. Node("assign") /\ annotation \in Types \cup {None}
      BY <1>5 DEF checkAssign, Written
    <2>3. b \in Activation /\ b.site = "assign"
      BY AtIsActivation DEF Sites
    <2>. HIDE DEF b
    <2>4. /\ a(name, mutable, annotation) \in Activation
          /\ a(name, mutable, annotation).site = "assign"
      BY <2>2, <2>3 DEF Activation
    <2>. HIDE DEF a
    <2>5. Fits(a(name, mutable, annotation))
      BY <2>2, <2>4, WhereNodesStand DEF Fits, HoldsCopy
    <2>6. stack' = Append(stack, a(name, mutable, annotation))
      BY <2>1 DEF Call
    <2>. QED  BY <1>1, <2>5, <2>6 DEF Moved
  <1>6. CASE checkCompoundAssign
    <2>1. Call(At("compound"))
      BY <1>6 DEF checkCompoundAssign
    <2>. QED  BY <1>1, <1>2, <2>1, QuietMoves
  <1>7. ASSUME NEW name \in Names, CompoundTarget(name)
        PROVE  Moved
    <2>1. stack # <<>> /\ Conclude(compoundError(name), unit)
      BY <1>7 DEF CompoundTarget, Resume
    <2>. QED  BY <1>2, <2>1, QuietMoves
  <1>8. CASE ReassignValue
    <2>1. stack # <<>> /\ \E error : Conclude(error, unit)
      BY <1>8 DEF ReassignValue, Resume
    <2>. QED  BY <1>1, <1>2, <2>1, QuietMoves
  <1>. QED  BY <1>1, <1>3, <1>4, <1>5, <1>6, <1>7, <1>8

\* Blocks, and the declaration of a variable.
LEMMA ScopeMoves ==
  ASSUME CopiesInv, checkBlk \/ BlkBody \/ AssignValue
  PROVE  Calm /\ Moved
  <1>1. /\ CheckerInv /\ WellFormed(stack) /\ Shape(stack)
        /\ \A site : Resume(site) => Resumed(site)
    BY ResumeFacts DEF CopiesInv, CheckerInv
  <1>2. Quiet(At("blk"))
    BY AtIsActivation DEF Quiet, Sites
  <1>3. CASE checkBlk
    <2>1. Call(At("blk")) /\ pushFrame
      BY <1>3 DEF checkBlk
    <2>. QED  BY <1>1, <1>2, <2>1, CalmSteps, QuietMoves
  <1>4. CASE BlkBody
    <2>1. Resume("blk") /\ Finish(result) /\ popFrame
      BY <1>4 DEF BlkBody
    <2>2. stack # <<>> /\ top.site = "blk" /\ mode = "return"
      BY <1>1, <2>1 DEF Resumed
    <2>3. Sheltered
      BY <1>1, <2>2, ShapeShelters DEF OwnsFrame
    <2>4. frames # <<>>
      BY <1>1, <2>2, RunningFacts
    <2>. QED  BY <1>1, <1>2, <2>1, <2>2, <2>3, <2>4, CalmSteps, QuietMoves
  <1>5. CASE AssignValue
    <2>1. /\ Resume("assign") /\ Conclude(assignError, unit)
          /\ UNCHANGED frames \/ \E symbol : addBinding(top.name, symbol)
      BY <1>5 DEF AssignValue
    <2>2. stack # <<>> /\ top.site = "assign"
      BY <1>1, <2>1 DEF Resumed
    <2>3. Sheltered
      BY <1>1, <2>2, ShapeShelters
    <2>. QED  BY <1>1, <1>2, <2>1, <2>2, <2>3, CalmSteps, QuietMoves
  <1>. QED  BY <1>3, <1>4, <1>5

LEMMA FunctionMoves ==
  ASSUME CopiesInv, checkFunc \/ FuncEnter \/ FuncParam \/ FuncBody \/ FuncReturn
  PROVE  Calm /\ Moved
  <1>1. /\ CheckerInv /\ WellFormed(stack) /\ Shape(stack)
        /\ \A site : Resume(site) => Resumed(site)
        /\ mode = "body" => stack # <<>>
    BY ResumeFacts DEF CopiesInv, CheckerInv
  <1>2. stack # <<>> => top \in Activation
    BY <1>1, StackParts
  <1>3. Quiet(At("fun enter"))
    BY AtIsActivation DEF Quiet, Sites
  <1>4. CASE checkFunc
    <2>. DEFINE b == At("fun enter")
                a(name, type, params) ==
                  [b EXCEPT !.name = name, !.type = type, !.params = params]
    <2>1. PICK name \in Names, params \in ParamLists, type \in Written \cup {None} :
            /\ UNCHANGED frames \/ \E symbol : addBinding(name, symbol)
            /\ stack' = stack \/ stack' = Append(stack, a(name, type, params))
      BY <1>4 DEF checkFunc, Return, Raise
    <2>2. stack # <<>> /\ top.site = "seq"
      BY <1>4, WhereNodesStand DEF checkFunc
    <2>3. Sheltered
      BY <1>1, <2>2, ShapeShelters
    <2>4. b \in Activation /\ b.site = "fun enter"
      BY AtIsActivation DEF Sites
    <2>5. type \in Types \cup {None} /\ params \in Seq(Param)
      BY ParamListsAssumption DEF Written
    <2>. HIDE DEF b
    <2>6. Quiet(a(name, type, params))
      BY <2>4, <2>5 DEF Quiet, Activation
    <2>. HIDE DEF a
    <2>. QED  BY <1>1, <2>1, <2>3, <2>6, CalmSteps, QuietMoves
  <1>5. CASE FuncEnter
    <2>. DEFINE a == [top EXCEPT !.site = "fun params"]
    <2>1. mode = "body" /\ stack' = Append(callers, a) /\ pushFrame
      BY <1>5 DEF FuncEnter
    <2>2. Quiet(a)
      BY <1>1, <1>2, <2>1 DEF Quiet, Activation, Sites
    <2>. HIDE DEF a
    <2>. QED  BY <1>1, <2>1, <2>2, CalmSteps, QuietMoves
  <1>6. CASE FuncParam
    <2>. DEFINE param == Head(top.params)
                a     == [top EXCEPT !.params = Tail(top.params)]
    <2>1. /\ mode = "body" /\ top.site = "fun params" /\ top.params # <<>>
          /\ \/ UNCHANGED frames /\ stack' = stack
             \/ /\ \E symbol : addBinding(param.nam, symbol)
                /\ stack' = Append(callers, a)
      BY <1>6 DEF FuncParam, Raise
    <2>2. stack # <<>>
      BY <1>1, <2>1
    <2>3. Sheltered
      BY <1>1, <2>1, <2>2, ShapeShelters DEF OwnsFrame
    <2>4. top.params \in Seq(Param) /\ top \in Activation
      BY <1>2, <2>2 DEF Activation
    <2>5. Tail(top.params) \in Seq(Param)
      BY <2>1, <2>4, TailFacts
    <2>6. Quiet(a)
      BY <2>1, <2>4, <2>5 DEF Quiet, Activation
    <2>. HIDE DEF a, param
    <2>. QED  BY <1>1, <2>1, <2>2, <2>3, <2>6, CalmSteps, QuietMoves
  <1>7. CASE FuncBody
    <2>. DEFINE a == [top EXCEPT !.site = "fun"]
    <2>1. mode = "body" /\ Continue(a) /\ UNCHANGED frames
      BY <1>7 DEF FuncBody
    <2>2. Quiet(a)
      BY <1>1, <1>2, <2>1 DEF Quiet, Activation, Sites
    <2>. HIDE DEF a
    <2>. QED  BY <1>1, <2>1, <2>2, CalmSteps, QuietMoves
  <1>8. CASE FuncReturn
    <2>1. /\ Resume("fun") /\ (\E error : Conclude(error, unit))
          /\ popFrame \/ UNCHANGED frames
      BY <1>8 DEF FuncReturn
    <2>2. stack # <<>> /\ top.site = "fun" /\ mode = "return"
      BY <1>1, <2>1 DEF Resumed
    <2>3. Sheltered
      BY <1>1, <2>2, ShapeShelters DEF OwnsFrame
    <2>4. frames # <<>>
      BY <1>1, <2>2, RunningFacts
    <2>. QED  BY <1>1, <1>3, <2>1, <2>2, <2>3, <2>4, CalmSteps, QuietMoves
  <1>. QED  BY <1>4, <1>5, <1>6, <1>7, <1>8

LEMMA ControlMoves ==
  ASSUME CopiesInv, Control
  PROVE  Calm /\ Moved
  <1>1. CheckerInv /\ WellFormed(stack) /\ Shape(stack)
    BY DEF CopiesInv, CheckerInv
  <1>2. CASE Start
    <2>1. pushFrame /\ stack' = stack
      BY <1>2 DEF Start
    <2>. QED  BY <1>1, <2>1, CalmSteps DEF Moved
  <1>3. CASE Unwind
    <2>1. /\ mode = "raise" /\ stack # <<>> /\ stack' = callers
          /\ IF OwnsFrame(top) THEN popFrame ELSE UNCHANGED frames
      BY <1>3 DEF Unwind
    <2>2. frames # <<>>
      BY <1>1, <2>1, RunningFacts
    <2>3. OwnsFrame(top) => Sheltered
      BY <1>1, <2>1, ShapeShelters
    <2>. QED  BY <1>1, <2>1, <2>2, <2>3, CalmSteps DEF Moved
  <1>4. CASE deinit
    <2>1. mode = "halt" /\ stack' = stack
      BY <1>4 DEF deinit, checker
    <2>2. stack = <<>>
      BY <1>1, <2>1 DEF CheckerInv
    <2>3. Calm
      BY <2>2 DEF Calm
    <2>. QED  BY <2>1, <2>3 DEF Moved
  <1>5. CASE Halt \/ Exit \/ Abort \/ Terminating
    <2>1. UNCHANGED <<frames, stack>>
      BY <1>5 DEF Halt, Exit, Abort, Terminating, vars
    <2>. QED  BY <1>1, <2>1, CalmSteps DEF Moved
  <1>. QED  BY <1>2, <1>3, <1>4, <1>5 DEF Control

-----------------------------------------------------------------------------
(* The steps that make a copy, or go on with one *)

\* The frame that lookup finds a name in is the innermost one.
LEMMA HomeInnermost ==
  ASSUME EnvInv, NEW name \in Names, Bound(name)
  PROVE  /\ Home(name) \in 1 .. Len(frames)
         /\ Innermost(frames, Len(frames), name, Home(name))
  <1>1. StopsAt(Home(name), name)
    BY DEF Bound, Home
  <1>2. frames \in Seq(Frame) /\ DOMAIN frames = 1 .. Len(frames) /\ Len(frames) \in Nat
    BY DEF EnvInv, EnvTypeOK
  <1>. DEFINE h == Home(name)
              n == Len(frames)
  <1>3. /\ h \in 1 .. n /\ frames[h][name] # None
        /\ \A j \in 1 .. n : j > h => frames[j][name] = None
    BY <1>1, <1>2 DEF StopsAt, Binds
  <1>. HIDE DEF h
  <1>4. \A j \in 1 .. n : frames[j][name] # None => j <= h
    BY <1>2, <1>3
  <1>. QED  BY <1>3, <1>4 DEF Innermost, h

LEMMA ReassignMoves ==
  ASSUME CopiesInv, NEW name \in Names, checkReassign(name)
  PROVE  Calm /\ Moved
  <1>. DEFINE b == At("reassign")
              a == [b EXCEPT !.name = name, !.type = lookup(name).type_name]
              n == Open(stack) + 1
  <1>1. /\ Node("reassign") /\ frames' = frames
        /\ IF reassignError(name) = None THEN Call(a) ELSE Raise(reassignError(name))
    BY DEF checkReassign
  <1>2. Calm
    BY <1>1, CalmSteps DEF CopiesInv
  <1>3. CASE reassignError(name) # None
    BY <1>1, <1>2, <1>3 DEF Raise, Moved
  <1>4. CASE reassignError(name) = None
    <2>1. /\ CheckerInv /\ EnvInv /\ mode = "check" /\ Open(stack) \in Nat
          /\ Bound(name)
      BY <1>1, <1>4, NodeFacts, NameErrors, OpenIsNat
      DEF CopiesInv, CheckerInv, WellFormed
    <2>2. Len(frames) = n
      BY <2>1 DEF CheckerInv
    <2>3. stack' = Append(stack, a)
      BY <1>1, <1>4 DEF Call
    <2>4. /\ Home(name) \in 1 .. n
          /\ Innermost(frames, n, name, Home(name))
          /\ lookup(name) = frames[Home(name)][name]
          /\ lookup(name).type_name \in Types
      BY <2>1, <2>2, HomeInnermost, HomeBinds, LookupFacts DEF EnvInv
    <2>5. /\ lookup(name).active_mutable_borrow = None
          /\ lookup(name).active_immutable_borrows = {}
          /\ lookup(name).is_mut
      <3>1. checkValError(name) = None
        BY <1>4 DEF reassignError
      <3>2. /\ lookup(name).active_immutable_borrows = {}
            /\ lookup(name).is_mut
        BY <1>4, <3>1, NoneAssumption DEF reassignError, CompileErrors
      <3>3. lookup(name).active_mutable_borrow = None
        BY <2>1, <3>1, NoneAssumption DEF checkValError, CompileErrors
      <3>. QED  BY <3>2, <3>3
    <2>6. b \in Activation /\ b.site = "reassign"
      BY AtIsActivation DEF Sites
    <2>. HIDE DEF b, n
    <2>7. /\ a \in Activation
          /\ a.site = "reassign" /\ a.name = name /\ a.type = lookup(name).type_name
      BY <2>4, <2>6 DEF Activation
    <2>. HIDE DEF a
    <2>8. TrueOf(a, lookup(name), n)
      <3>1. None \notin 0 .. (n - 2)
        BY <2>1, NoneAssumption DEF n
      <3>. QED  BY <2>5, <2>7, <3>1 DEF TrueOf
    <2>9. Backed(a, frames, n)
      BY <2>4, <2>7, <2>8 DEF Backed
    <2>10. Fits(a)
      BY <1>1, <2>7, <2>9 DEF Fits, n
    <2>. QED  BY <1>2, <2>3, <2>10 DEF Moved
  <1>. QED  BY <1>3, <1>4

\* What is left of a list when its head is taken off what was left.
LEMMA Suffixes ==
  ASSUME NEW whole \in Seq(Param)
  PROVE  /\ whole = SubSeq(whole, Len(whole) - Len(whole) + 1, Len(whole))
         /\ \A left \in Seq(Param) :
              /\ Len(left) > 1
              /\ Len(left) <= Len(whole)
              /\ left = SubSeq(whole, Len(whole) - Len(left) + 1, Len(whole))
              => /\ Len(Tail(left)) <= Len(whole)
                 /\ Tail(left) = SubSeq(whole, Len(whole) - Len(Tail(left)) + 1, Len(whole))
  <1>. DEFINE n == Len(whole)
  <1>1. n \in Nat /\ \A i \in 1 .. n : whole[i] \in Param
    OBVIOUS
  <1>2. whole = SubSeq(whole, 1, n)
    OBVIOUS
  <1>3. n - n + 1 = 1
    BY <1>1
  <1>4. ASSUME NEW left \in Seq(Param), Len(left) > 1, Len(left) <= n,
               left = SubSeq(whole, n - Len(left) + 1, n)
        PROVE  /\ Len(Tail(left)) <= n
               /\ Tail(left) = SubSeq(whole, n - Len(Tail(left)) + 1, n)
    <2>. DEFINE l == Len(left)
                m == n - l + 1
    <2>1. l \in Nat /\ l > 1 /\ l <= n /\ left = SubSeq(whole, m, n)
      BY <1>4
    <2>. HIDE DEF l, n
    <2>2. m \in 1 .. n /\ n \in m .. n
      BY <1>1, <2>1
    <2>. HIDE DEF m
    <2>3. Tail(left) = SubSeq(whole, m + 1, n)
      BY <2>1, <2>2, HeadTailOfSubSeq DEF n
    <2>4. Len(Tail(left)) = l - 1
      BY <1>4, TailFacts, HeadTailProperties DEF l
    <2>5. n - (l - 1) + 1 = m + 1 /\ l - 1 <= n
      BY <1>1, <2>1 DEF m
    <2>. QED  BY <2>3, <2>4, <2>5
  <1>. QED  BY <1>2, <1>3, <1>4

LEMMA AppMoves ==
  ASSUME CopiesInv, NEW name \in Names, checkApp(name)
  PROVE  Calm /\ Moved
  <1>. DEFINE signature == lookup(name).func_sig
              b         == At("app")
              a         == [b EXCEPT !.name = name, !.type = signature.return_type,
                                     !.params = signature.params]
              n         == Open(stack) + 1
  <1>1. /\ Node("app") /\ frames' = frames
        /\ \/ stack' = stack
           \/ /\ appError(name) = None
              /\ stack' = Append(stack, a)
    BY DEF checkApp, Raise, Return, Call
  <1>2. Calm
    BY <1>1, CalmSteps DEF CopiesInv
  <1>3. CASE stack' = stack
    BY <1>2, <1>3 DEF Moved
  <1>4. CASE appError(name) = None /\ stack' = Append(stack, a)
    <2>1. /\ CheckerInv /\ EnvInv /\ mode = "check" /\ Open(stack) \in Nat
          /\ Bound(name) /\ signature # None
      BY <1>1, <1>4, NodeFacts, NameErrors, OpenIsNat
      DEF CopiesInv, CheckerInv, WellFormed
    <2>2. Len(frames) = n
      BY <2>1 DEF CheckerInv
    <2>3. /\ Home(name) \in 1 .. n
          /\ Innermost(frames, n, name, Home(name))
          /\ lookup(name) = frames[Home(name)][name]
      BY <2>1, <2>2, HomeInnermost, HomeBinds DEF EnvInv
    <2>4. /\ signature.params \in Seq(Param)
          /\ signature.return_type \in Types \cup {None}
      <3>1. signature \in FunctionSignature
        BY <2>1, LookupFacts DEF SymbolInfo
      <3>. QED  BY <3>1, ParamListsAssumption DEF FunctionSignature
    <2>5. b \in Activation /\ b.site = "app"
      BY AtIsActivation DEF Sites
    <2>. HIDE DEF b, n
    <2>6. /\ a \in Activation
          /\ a.site = "app" /\ a.name = name
          /\ a.type = signature.return_type /\ a.params = signature.params
      BY <2>4, <2>5 DEF Activation
    <2>. HIDE DEF a
    <2>7. Len(signature.params) \in Nat
      BY <2>4
    <2>8. TrueOf(a, lookup(name), n)
      BY <2>1, <2>4, <2>6, <2>7, Suffixes DEF TrueOf
    <2>9. Backed(a, frames, n)
      BY <2>3, <2>6, <2>8 DEF Backed
    <2>10. Fits(a)
      BY <1>1, <2>6, <2>9 DEF Fits, n
    <2>. QED  BY <1>2, <1>4, <2>10 DEF Moved
  <1>. QED  BY <1>1, <1>3, <1>4

LEMMA ArgumentMoves ==
  ASSUME CopiesInv, AppArgument
  PROVE  Calm /\ Moved
  <1>. DEFINE a == [top EXCEPT !.params = Tail(top.params)]
              n == Open(callers) + 1
  <1>1. /\ Resume("app") /\ frames' = frames
        /\ \/ stack' = stack
           \/ stack' = callers
           \/ Len(top.params) > 1 /\ stack' = Append(callers, a)
    BY DEF AppArgument, NextCall, Conclude, Continue, Finish, Raise
  <1>2. Calm
    BY <1>1, CalmSteps DEF CopiesInv
  <1>3. /\ stack # <<>> /\ top \in Activation /\ top.site = "app"
        /\ CheckerInv /\ EnvInv /\ WellFormed(stack)
        /\ top.params \in Seq(Param)
    BY <1>1, ResumeFacts DEF Resumed, CopiesInv, CheckerInv, Activation
  <1>4. CASE stack' = stack \/ stack' = callers
    BY <1>2, <1>3, <1>4 DEF Moved
  <1>5. CASE Len(top.params) > 1 /\ stack' = Append(callers, a)
    <2>1. /\ WellFormed(callers) /\ callers \in Seq(Activation)
          /\ stack = Append(callers, top) /\ Open(callers) \in Nat
      BY <1>3, StackParts DEF WellFormed
    <2>2. Len(stack) \in DOMAIN stack /\ Len(stack) = Len(callers) + 1
      <3>. HIDE DEF callers, top
      <3>. QED  BY <1>3, <2>1
    <2>3. Scope(stack, Len(stack)) + 1 = n
      BY <1>3, <2>1, <2>2, ScopeOfAppended
    <2>4. Backed(top, frames, n)
      <3>1. HoldsCopy(stack[Len(stack)])
        BY <1>3 DEF HoldsCopy, top
      <3>2. Backed(stack[Len(stack)], frames, Scope(stack, Len(stack)) + 1)
        BY <2>2, <3>1 DEF CopiesInv, CopiesValid
      <3>. QED  BY <2>3, <3>2 DEF top
    <2>5. PICK h \in 1 .. n :
            Innermost(frames, n, top.name, h) /\ TrueOf(top, frames[h][top.name], n)
      BY <2>4 DEF Backed
    <2>. DEFINE symbol == frames[h][top.name]
                whole  == symbol.func_sig.params
    <2>6. /\ symbol.func_sig # None /\ symbol.func_sig.return_type = top.type
          /\ Len(top.params) <= Len(whole)
          /\ top.params = SubSeq(whole, Len(whole) - Len(top.params) + 1, Len(whole))
      BY <1>3, <2>5 DEF TrueOf
    <2>7. whole \in Seq(Param)
      <3>1. h \in DOMAIN frames
        <4>1. frames \in Seq(Frame) /\ Len(frames) = 1 + Open(stack) /\ Open(stack) \in Nat
          BY <1>3, OpenIsNat DEF CheckerInv, EnvInv, EnvTypeOK, WellFormed
        <4>2. Scope(stack, Len(stack)) <= Open(stack) /\ Scope(stack, Len(stack)) \in Nat
          BY <1>3, <2>2, ScopeBounds DEF WellFormed
        <4>. HIDE DEF n
        <4>. QED  BY <2>3, <4>1, <4>2
      <3>2. top.name \in Names /\ symbol # None
        BY <2>4, <2>5 DEF Backed, Innermost
      <3>3. symbol \in SymbolInfo
        BY <1>3, <3>1, <3>2 DEF EnvInv, Sound
      <3>4. symbol.func_sig \in FunctionSignature
        BY <2>6, <3>3 DEF SymbolInfo
      <3>. QED  BY <3>4, ParamListsAssumption DEF FunctionSignature
    <2>. HIDE DEF symbol, n
    <2>8. Tail(top.params) \in Seq(Param)
      BY <1>3, <1>5, TailFacts
    <2>9. /\ a \in Activation
          /\ a.site = "app" /\ a.name = top.name
          /\ a.type = top.type /\ a.params = Tail(top.params)
      BY <1>3, <2>8 DEF Activation
    <2>. HIDE DEF a
    <2>10. TrueOf(a, symbol, n)
      <3>1. /\ Len(Tail(top.params)) <= Len(whole)
            /\ Tail(top.params) = SubSeq(whole, Len(whole) - Len(Tail(top.params)) + 1,
                                         Len(whole))
        BY <1>3, <1>5, <2>6, <2>7, Suffixes
      <3>. QED  BY <2>6, <2>9, <3>1 DEF TrueOf
    <2>11. Backed(a, frames, n)
      BY <2>4, <2>5, <2>9, <2>10 DEF Backed, symbol
    <2>12. Follows(a)
      BY <1>1, <2>9, <2>11 DEF Follows, n
    <2>. QED  BY <1>2, <1>3, <1>5, <2>12 DEF Moved
  <1>. QED  BY <1>1, <1>4, <1>5

-----------------------------------------------------------------------------
(* The theorems *)

LEMMA CopiesNext ==
  ASSUME CopiesInv, [Next]_vars
  PROVE  CopiesInv'
  <1>1. Calm /\ Moved
    <2>1. CASE UNCHANGED vars
      <3>1. UNCHANGED <<frames, stack>>
        BY <2>1 DEF vars
      <3>. QED  BY <3>1, CalmSteps DEF CopiesInv, Moved
    <2>2. CASE Leaf
      BY <2>2, LeafMoves
    <2>3. CASE Operator
      BY <2>3, OperatorMoves
    <2>4. CASE Statement
      BY <2>4, SequenceMoves, ScopeMoves, CondMoves, ReassignMoves DEF Statement
    <2>5. CASE Function
      BY <2>5, FunctionMoves, AppMoves, ArgumentMoves DEF Function
    <2>6. CASE Control
      BY <2>6, ControlMoves
    <2>. QED  BY <2>1, <2>2, <2>3, <2>4, <2>5, <2>6 DEF Next
  <1>2. CheckerInv'
    BY CheckerNextSound DEF CopiesInv
  <1>3. Shape(stack') /\ CopiesValid(stack', frames')
    BY <1>1, MoveKeeps
  <1>. QED  BY <1>2, <1>3 DEF CopiesInv, Shape, CopiesValid

LEMMA CopiesInvInductive == Spec => []CopiesInv
  <1>1. Init => CopiesInv
    <2>. SUFFICES ASSUME Init PROVE CopiesInv
      OBVIOUS
    <2>1. CheckerInv
      BY CheckerInit
    <2>2. stack = <<>>
      BY DEF Init
    <2>. QED  BY <2>1, <2>2 DEF CopiesInv, Shape, CopiesValid
  <1>2. CopiesInv /\ [Next]_vars => CopiesInv'
    BY CopiesNext
  <1>. QED  BY <1>1, <1>2, PTL DEF Spec

LEMMA CopiesInvImplies ==
  CopiesInv => TargetBindingIsKept /\ CallSignatureStaysValid
  BY CopiesImply DEF CopiesInv

\* While checkReassign checks the new value, the variable assigned to stays
\* the one that was looked up, of its type, mutable, and borrowed by no scope
\* around the assignment's own.  Borrows of it by the value are not excluded.
THEOREM TargetBindingsAreKept == Spec => []TargetBindingIsKept
  BY CopiesInvInductive, CopiesInvImplies, PTL

\* While the arguments of a call are checked, the called name stays bound to
\* the function whose parameters they are matched against.
THEOREM SignaturesStayValid == Spec => []CallSignatureStaysValid
  BY CopiesInvInductive, CopiesInvImplies, PTL

=============================================================================
