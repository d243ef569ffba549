----------------------- MODULE TypeEnvironment_proofs -----------------------
(***************************************************************************)
(* The invariants of the type environment, for every set of names, types   *)
(* and signatures and every depth of scopes.                               *)
(***************************************************************************)
EXTENDS TypeEnvironment, TLAPS

\* create and createFunc build well-formed symbols without borrows.
LEMMA NewSymbolType ==
  ASSUME currentLifetime \in Nat, NEW symbol \in NewSymbol
  PROVE  /\ symbol \in SymbolInfo
         /\ symbol.declaration_lifetime = currentLifetime
         /\ symbol.active_immutable_borrows = {}
         /\ symbol.active_mutable_borrow = None
  <1>. DEFINE fields(s) ==
         /\ s \in SymbolInfo
         /\ s.declaration_lifetime = currentLifetime
         /\ s.active_immutable_borrows = {}
         /\ s.active_mutable_borrow = None
  <1>1. ASSUME NEW type \in Types, NEW mutable \in BOOLEAN
        PROVE  fields(create(type, mutable, currentLifetime))
    BY DEF create, SymbolInfo, LifetimeId
  <1>2. ASSUME NEW signature \in FunctionSignature
        PROVE  fields(createFunc(signature, currentLifetime))
    BY TypesAssumption DEF createFunc, create, SymbolInfo, LifetimeId
  <1>. QED  BY <1>1, <1>2 DEF NewSymbol

\* The scan of lookup stops at one frame only, which binds the name.
LEMMA HomeBinds ==
  ASSUME EnvTypeOK, NEW name \in Names, Bound(name)
  PROVE  /\ Home(name) \in DOMAIN frames
         /\ frames[Home(name)][name] # None
         /\ lookup(name) = frames[Home(name)][name]
         /\ lookup(name) \in SymbolInfo
  <1>1. StopsAt(Home(name), name)
    BY DEF Bound, Home
  <1>2. Home(name) \in DOMAIN frames /\ frames[Home(name)][name] # None
    BY <1>1 DEF StopsAt, Binds
  <1>3. frames[Home(name)] \in Frame
    BY <1>2 DEF EnvTypeOK
  <1>. QED  BY <1>2, <1>3 DEF lookup, Frame

-----------------------------------------------------------------------------
(***************************************************************************)
(* The four invariants are one fact about each symbol, relative to the     *)
(* index of its frame and the number of open frames.                       *)
(***************************************************************************)

Sound(i, symbol, depth) ==
  /\ symbol \in SymbolInfo
  /\ symbol.declaration_lifetime = i - 1
  /\ symbol.active_immutable_borrows \ {Poison} \subseteq (i - 1) .. (depth - 1)
  /\ symbol.active_mutable_borrow \in ((i - 1) .. (depth - 1)) \cup {None}
  /\ symbol.active_mutable_borrow # None =>
       symbol.active_immutable_borrows = {} /\ symbol.is_mut

EnvInv ==
  /\ EnvTypeOK
  /\ \A i \in DOMAIN frames : \A name \in Names :
       frames[i][name] # None => Sound(i, frames[i][name], Len(frames))

\* EnvInv is the conjunction of the invariants the runs check.
LEMMA EnvInvImplies ==
  EnvInv => EnvTypeOK /\ MutXorShared /\ LifetimeIsFrame /\ BorrowersAreOpenScopes
  BY DEF EnvInv, Sound, MutXorShared, LifetimeIsFrame, BorrowersAreOpenScopes,
         Binds, currentLifetime

\* What happens to one symbol when a scope opens, when it closes, and when
\* the symbol is borrowed or its list is freed.
LEMMA SoundWhenPushed ==
  ASSUME NEW depth \in Nat, NEW i \in 1 .. depth, NEW symbol, Sound(i, symbol, depth)
  PROVE  Sound(i, symbol, depth + 1)
  BY DEF Sound

LEMMA SoundWhenPopped ==
  ASSUME NEW depth \in Nat, NEW i \in 1 .. (depth - 1), NEW symbol,
         Sound(i, symbol, depth)
  PROVE  Sound(i, EndLifetime(symbol, depth - 1), depth - 1)
  <1>. DEFINE ended == EndLifetime(symbol, depth - 1)
  <1>1. ended \in SymbolInfo
    BY DEF Sound, EndLifetime, SymbolInfo
  <1>2. /\ ended.declaration_lifetime = symbol.declaration_lifetime
        /\ ended.is_mut = symbol.is_mut
        /\ ended.active_immutable_borrows = symbol.active_immutable_borrows \ {depth - 1}
        /\ ended.active_mutable_borrow =
             IF symbol.active_mutable_borrow = depth - 1 THEN None
             ELSE symbol.active_mutable_borrow
    BY DEF Sound, EndLifetime, SymbolInfo
  <1>. QED  BY <1>1, <1>2, NoneAssumption DEF Sound

LEMMA SoundWhenFreed ==
  ASSUME NEW depth \in Nat, NEW i \in 1 .. depth, NEW symbol, NEW buffer,
         Sound(i, symbol, depth), NEW freed \in CopyFreed(symbol, buffer)
  PROVE  Sound(i, freed, depth)
  <1>1. CASE freed = symbol
    BY <1>1
  <1>2. CASE freed # symbol
    <2>1. PICK read \in {symbol.active_immutable_borrows,
                         IF symbol.active_immutable_borrows = {} THEN {} ELSE {Poison}} :
            freed = [symbol EXCEPT !.active_immutable_borrows = read,
                                   !.buffer = "freed"]
      BY <1>2 DEF CopyFreed
    <2>2. /\ freed \in SymbolInfo
          /\ freed.declaration_lifetime = symbol.declaration_lifetime
          /\ freed.is_mut = symbol.is_mut
          /\ freed.active_mutable_borrow = symbol.active_mutable_borrow
          /\ freed.active_immutable_borrows = read
      BY <2>1 DEF Sound, SymbolInfo
    <2>3. /\ read \ {Poison} \subseteq symbol.active_immutable_borrows \ {Poison}
          /\ symbol.active_immutable_borrows = {} => read = {}
      OBVIOUS
    <2>. QED  BY <2>2, <2>3 DEF Sound
  <1>. QED  BY <1>1, <1>2

LEMMA SoundWhenBorrowed ==
  ASSUME NEW depth \in Nat, NEW i \in 1 .. depth, NEW symbol,
         Sound(i, symbol, depth), symbol.active_mutable_borrow = None
  PROVE  /\ Sound(i, Appended(symbol, depth - 1), depth)
         /\ symbol.active_immutable_borrows = {} /\ symbol.is_mut =>
              Sound(i, [symbol EXCEPT !.active_mutable_borrow = depth - 1], depth)
  <1>1. ASSUME NEW new, new = Appended(symbol, depth - 1)
        PROVE  /\ new \in SymbolInfo
               /\ new.declaration_lifetime = symbol.declaration_lifetime
               /\ new.active_mutable_borrow = None
               /\ new.active_immutable_borrows
                    = symbol.active_immutable_borrows \cup {depth - 1}
    <2>. DEFINE borrows == symbol.active_immutable_borrows \cup {depth - 1}
                buffer  == IF symbol.buffer = "none" THEN "live" ELSE symbol.buffer
    <2>1. symbol \in SymbolInfo /\ depth - 1 \in LifetimeId
      BY DEF Sound, LifetimeId
    <2>2. borrows \in SUBSET (LifetimeId \cup {Poison})
      BY <2>1 DEF SymbolInfo
    <2>3. buffer \in {"none", "live", "freed"}
      BY <2>1 DEF SymbolInfo
    <2>4. new = [symbol EXCEPT !.active_immutable_borrows = borrows, !.buffer = buffer]
      BY <1>1 DEF Appended
    <2>. HIDE DEF borrows, buffer
    <2>5. /\ new \in SymbolInfo
          /\ new.declaration_lifetime = symbol.declaration_lifetime
          /\ new.active_mutable_borrow = symbol.active_mutable_borrow
          /\ new.active_immutable_borrows = borrows
      BY <2>1, <2>2, <2>3, <2>4 DEF SymbolInfo
    <2>. QED  BY <2>5 DEF borrows
  <1>2. ASSUME NEW new, new = [symbol EXCEPT !.active_mutable_borrow = depth - 1]
        PROVE  /\ new \in SymbolInfo
               /\ new.declaration_lifetime = symbol.declaration_lifetime
               /\ new.is_mut = symbol.is_mut
               /\ new.active_mutable_borrow = depth - 1
               /\ new.active_immutable_borrows = symbol.active_immutable_borrows
    BY <1>2 DEF Sound, SymbolInfo, LifetimeId
  <1>. QED  BY <1>1, <1>2 DEF Sound

-----------------------------------------------------------------------------
(* The environment's operations preserve EnvInv *)

\* Replacing one symbol of one frame by a sound one.
LEMMA UpdateSound ==
  ASSUME EnvInv, NEW i \in DOMAIN frames, NEW name \in Names, NEW symbol,
         Sound(i, symbol, Len(frames)),
         frames' = [frames EXCEPT ![i][name] = symbol]
  PROVE  EnvInv'
  <1>1. symbol \in SymbolInfo
    BY DEF Sound
  <1>2. frames \in Seq(Frame) /\ frames[i] \in Frame
    BY DEF EnvInv, EnvTypeOK
  <1>3. frames' \in Seq(Frame) /\ Len(frames') = Len(frames)
    BY <1>1, <1>2 DEF Frame
  <1>4. ASSUME NEW j \in DOMAIN frames', NEW other \in Names,
               frames'[j][other] # None
        PROVE  Sound(j, frames'[j][other], Len(frames))
    <2>1. j \in DOMAIN frames /\ frames[j] \in Frame
      BY <1>2
    <2>2. CASE j = i /\ other = name
      BY <1>2, <2>1, <2>2 DEF Frame
    <2>3. CASE ~(j = i /\ other = name)
      <3>1. frames'[j][other] = frames[j][other]
        BY <1>2, <2>1, <2>3 DEF Frame
      <3>. QED  BY <1>4, <2>1, <3>1 DEF EnvInv
    <2>. QED  BY <2>2, <2>3
  <1>. QED  BY <1>3, <1>4 DEF EnvInv, EnvTypeOK

LEMMA PushFrameSound ==
  ASSUME EnvInv, pushFrame
  PROVE  EnvInv'
  <1>1. frames \in Seq(Frame) /\ EmptyFrame \in Frame
    BY DEF EnvInv, EnvTypeOK, EmptyFrame, Frame
  <1>2. /\ frames' \in Seq(Frame)
        /\ Len(frames') = Len(frames) + 1
        /\ \A i \in DOMAIN frames : frames'[i] = frames[i]
        /\ frames'[Len(frames) + 1] = EmptyFrame
        /\ DOMAIN frames' = DOMAIN frames \cup {Len(frames) + 1}
    BY <1>1 DEF pushFrame
  <1>3. ASSUME NEW i \in DOMAIN frames', NEW name \in Names, frames'[i][name] # None
        PROVE  Sound(i, frames'[i][name], Len(frames) + 1)
    <2>1. i \in DOMAIN frames /\ frames'[i] = frames[i]
      BY <1>2, <1>3 DEF EmptyFrame
    <2>2. Sound(i, frames[i][name], Len(frames)) /\ i \in 1 .. Len(frames)
      BY <1>1, <1>3, <2>1 DEF EnvInv
    <2>. QED  BY <1>1, <2>1, <2>2, SoundWhenPushed
  <1>. QED  BY <1>2, <1>3 DEF EnvInv, EnvTypeOK

\* The frames that remain after popFrame.
LEMMA PoppedFrames ==
  ASSUME EnvTypeOK, popFrame, frames # <<>>
  PROVE  /\ Len(frames) \in Nat \ {0}
         /\ DOMAIN frames' = 1 .. (Len(frames) - 1)
         /\ Len(frames') = Len(frames) - 1
         /\ \A i \in 1 .. (Len(frames) - 1) :
              /\ i \in DOMAIN frames
              /\ frames'[i] = Released(frames[i], Len(frames) - 1)
  BY DEF EnvTypeOK, popFrame, currentLifetime

LEMMA PopFrameSound ==
  ASSUME EnvInv, popFrame
  PROVE  EnvInv'
  <1>1. frames \in Seq(Frame)
    BY DEF EnvInv, EnvTypeOK
  <1>2. CASE frames = <<>>
    BY <1>2 DEF popFrame, EnvInv, EnvTypeOK, Sound
  <1>3. CASE frames # <<>>
    <2>. DEFINE depth == Len(frames)
    <2>1. /\ depth \in Nat \ {0}
          /\ DOMAIN frames' = 1 .. (depth - 1)
          /\ Len(frames') = depth - 1
          /\ \A i \in 1 .. (depth - 1) :
               /\ i \in DOMAIN frames
               /\ frames'[i] = Released(frames[i], depth - 1)
      BY <1>3, PoppedFrames DEF EnvInv
    <2>2. ASSUME NEW i \in 1 .. (depth - 1), NEW name \in Names,
                 frames[i][name] # None
          PROVE  /\ frames'[i][name] = EndLifetime(frames[i][name], depth - 1)
                 /\ Sound(i, frames'[i][name], depth - 1)
      <3>1. Sound(i, frames[i][name], depth)
        BY <2>1, <2>2 DEF EnvInv
      <3>2. frames'[i][name] = EndLifetime(frames[i][name], depth - 1)
        BY <2>1, <2>2 DEF Released
      <3>. QED  BY <2>1, <3>1, <3>2, SoundWhenPopped
    <2>3. ASSUME NEW i \in 1 .. (depth - 1), NEW name \in Names,
                 frames[i][name] = None
          PROVE  frames'[i][name] = None
      BY <2>1, <2>3 DEF Released
    <2>4. ASSUME NEW i \in 1 .. (depth - 1)
          PROVE  frames'[i] \in Frame
      <3>1. \A name \in Names : frames'[i][name] \in SymbolInfo \cup {None}
        BY <2>2, <2>3 DEF Sound
      <3>2. frames'[i] = [name \in Names |-> frames'[i][name]]
        BY <2>1 DEF Released
      <3>. QED  BY <3>1, <3>2 DEF Frame
    <2>5. frames' \in Seq(Frame)
      <3>1. frames' = [i \in 1 .. (depth - 1) |-> frames'[i]]
        BY <1>3, <2>1 DEF popFrame, currentLifetime
      <3>. QED  BY <2>1, <2>4, <3>1
    <2>. QED  BY <2>1, <2>2, <2>3, <2>5 DEF EnvInv, EnvTypeOK
  <1>. QED  BY <1>2, <1>3

LEMMA AddBindingSound ==
  ASSUME EnvInv, NEW name \in Names, NEW symbol \in NewSymbol,
         addBinding(name, symbol)
  PROVE  EnvInv'
  <1>1. /\ Len(frames) \in DOMAIN frames
        /\ frames' = [frames EXCEPT ![Len(frames)][name] = symbol]
        /\ currentLifetime \in Nat
    BY DEF addBinding, EnvInv, EnvTypeOK, currentLifetime
  <1>2. Sound(Len(frames), symbol, Len(frames))
    BY <1>1, NewSymbolType DEF Sound, currentLifetime
  <1>. QED  BY <1>1, <1>2, UpdateSound

LEMMA BorrowSound ==
  ASSUME EnvInv, NEW name \in Names,
         \/ incrementImmutableBorrow(name)
         \/ setMutableBorrow(name)
         \/ RefusedBorrow(name)
  PROVE  EnvInv'
  <1>. DEFINE depth  == Len(frames)
              symbol == lookup(name)
  <1>1. Bound(name)
    BY NoneAssumption DEF incrementImmutableBorrow, incrementImmutableBorrowError,
                          setMutableBorrow, setMutableBorrowError, RefusedBorrow,
                          CompileErrors
  <1>2. /\ Home(name) \in DOMAIN frames
        /\ frames[Home(name)][name] # None
        /\ symbol = frames[Home(name)][name]
    BY <1>1, HomeBinds DEF EnvInv
  <1>3. /\ depth \in Nat
        /\ Home(name) \in 1 .. depth
        /\ Sound(Home(name), symbol, depth)
    BY <1>2 DEF EnvInv, EnvTypeOK
  <1>. HIDE DEF symbol
  <1>4. CASE incrementImmutableBorrow(name)
    <2>1. PICK new \in CopyFreed(Appended(symbol, depth - 1), symbol.buffer) :
            Update(name, new)
      BY <1>4 DEF incrementImmutableBorrow, currentLifetime, symbol
    <2>2. symbol.active_mutable_borrow = None
      BY <1>1, <1>4, NoneAssumption
      DEF incrementImmutableBorrow, incrementImmutableBorrowError, CompileErrors, symbol
    <2>3. Sound(Home(name), new, depth)
      BY <1>3, <2>1, <2>2, SoundWhenBorrowed, SoundWhenFreed
    <2>. QED  BY <1>2, <2>1, <2>3, UpdateSound DEF Update
  <1>5. CASE setMutableBorrow(name)
    <2>1. PICK new \in CopyFreed([symbol EXCEPT !.active_mutable_borrow = depth - 1],
                                 symbol.buffer) :
            Update(name, new)
      BY <1>5 DEF setMutableBorrow, currentLifetime, symbol
    <2>2. /\ symbol.active_mutable_borrow = None
          /\ symbol.active_immutable_borrows = {}
          /\ symbol.is_mut
      BY <1>1, <1>5, NoneAssumption
      DEF setMutableBorrow, setMutableBorrowError, CompileErrors, symbol
    <2>3. Sound(Home(name), new, depth)
      BY <1>3, <2>1, <2>2, SoundWhenBorrowed, SoundWhenFreed
    <2>. QED  BY <1>2, <2>1, <2>3, UpdateSound DEF Update
  <1>6. CASE RefusedBorrow(name)
    <2>1. PICK new \in CopyFreed(symbol, symbol.buffer) : Update(name, new)
      BY <1>6 DEF RefusedBorrow, symbol
    <2>2. Sound(Home(name), new, depth)
      BY <1>3, <2>1, SoundWhenFreed
    <2>. QED  BY <1>2, <2>1, <2>2, UpdateSound DEF Update
  <1>. QED  BY <1>4, <1>5, <1>6

\* EnvInv is inductive.
LEMMA EnvNextSound ==
  ASSUME EnvInv, [EnvNext]_frames
  PROVE  EnvInv'
  <1>1. CASE pushFrame
    BY <1>1, PushFrameSound
  <1>2. CASE popFrame
    BY <1>2, PopFrameSound
  <1>3. ASSUME NEW name \in Names, NEW symbol \in NewSymbol, addBinding(name, symbol)
        PROVE  EnvInv'
    BY <1>3, AddBindingSound
  <1>4. ASSUME NEW name \in Names,
               \/ incrementImmutableBorrow(name)
               \/ setMutableBorrow(name)
               \/ RefusedBorrow(name)
        PROVE  EnvInv'
    BY <1>4, BorrowSound
  <1>5. CASE UNCHANGED frames
    BY <1>5 DEF EnvInv, EnvTypeOK
  <1>. QED  BY <1>1, <1>2, <1>3, <1>4, <1>5 DEF EnvNext

LEMMA EnvInvInductive ==
  EnvSpec => []EnvInv
  <1>1. EnvInit => EnvInv
    BY DEF EnvInit, EnvInv, EnvTypeOK
  <1>2. EnvInv /\ [EnvNext]_frames => EnvInv'
    BY EnvNextSound
  <1>. QED  BY <1>1, <1>2, PTL DEF EnvSpec

-----------------------------------------------------------------------------
(* The theorems *)

\* The scopes only ever hold well-formed symbols.
THEOREM EnvTypeCorrect == EnvSpec => []EnvTypeOK
  BY EnvInvInductive, EnvInvImplies, PTL

\* A mutable borrow excludes every other one.
THEOREM BorrowsExclude == EnvSpec => []MutXorShared
  BY EnvInvInductive, EnvInvImplies, PTL

\* The recorded lifetime of a symbol is the index of its frame.
THEOREM LifetimesAreFrames == EnvSpec => []LifetimeIsFrame
  BY EnvInvInductive, EnvInvImplies, PTL

\* Every recorded borrower is an open scope inside that of the variable.
THEOREM BorrowersOpen == EnvSpec => []BorrowersAreOpenScopes
  BY EnvInvInductive, EnvInvImplies, PTL

-----------------------------------------------------------------------------
(* Borrows last as long as their scope *)

\* The step of BorrowsLastAsLongAsTheirScope.
BorrowsKept ==
  \A i \in DOMAIN frames \cap DOMAIN frames' : \A name \in Names :
    Binds(i, name) =>
      /\ frames'[i][name] # None
      /\ KeepsBorrows(frames[i][name], frames'[i][name], Len(frames'))

LEMMA PushFrameKeeps ==
  ASSUME EnvInv, pushFrame
  PROVE  BorrowsKept
  BY DEF EnvInv, EnvTypeOK, pushFrame, BorrowsKept, Binds, KeepsBorrows

LEMMA PopFrameKeeps ==
  ASSUME EnvInv, popFrame
  PROVE  BorrowsKept
  <1>. SUFFICES ASSUME NEW i \in DOMAIN frames \cap DOMAIN frames', NEW name \in Names,
                       Binds(i, name)
                PROVE  /\ frames'[i][name] # None
                       /\ KeepsBorrows(frames[i][name], frames'[i][name], Len(frames'))
    BY DEF BorrowsKept
  <1>. DEFINE depth  == Len(frames)
              symbol == frames[i][name]
  <1>1. frames # <<>>
    BY DEF EnvInv, EnvTypeOK
  <1>2. /\ depth \in Nat \ {0}
        /\ Len(frames') = depth - 1
        /\ i \in 1 .. (depth - 1)
        /\ frames'[i] = Released(frames[i], depth - 1)
    BY <1>1, PoppedFrames DEF EnvInv
  <1>3. symbol # None /\ Sound(i, symbol, depth)
    BY DEF Binds, EnvInv
  <1>4. frames'[i][name] = EndLifetime(symbol, depth - 1)
    BY <1>2, <1>3 DEF Released
  <1>5. EndLifetime(symbol, depth - 1) # None
    <2>1. Sound(i, EndLifetime(symbol, depth - 1), depth - 1)
      BY <1>2, <1>3, SoundWhenPopped
    <2>2. frames'[i][name] \in SymbolInfo
      BY <1>4, <2>1 DEF Sound
    <2>. QED  BY <1>4, <2>2, SymbolAssumption
  <1>6. KeepsBorrows(symbol, EndLifetime(symbol, depth - 1), depth - 1)
    BY <1>2, <1>3 DEF Sound, SymbolInfo, EndLifetime, KeepsBorrows
  <1>. QED  BY <1>2, <1>4, <1>5, <1>6

\* Replacing a symbol by one that keeps its borrows.
LEMMA UpdateKeeps ==
  ASSUME EnvInv, NEW home \in DOMAIN frames, NEW called \in Names, NEW new,
         new \in SymbolInfo,
         frames[home][called] # None =>
           KeepsBorrows(frames[home][called], new, Len(frames)),
         frames' = [frames EXCEPT ![home][called] = new]
  PROVE  BorrowsKept
  <1>. SUFFICES ASSUME NEW i \in DOMAIN frames \cap DOMAIN frames', NEW name \in Names,
                       Binds(i, name)
                PROVE  /\ frames'[i][name] # None
                       /\ KeepsBorrows(frames[i][name], frames'[i][name], Len(frames'))
    BY DEF BorrowsKept
  <1>1. /\ frames \in Seq(Frame)
        /\ frames[i] \in Frame
        /\ Len(frames') = Len(frames)
        /\ frames[i][name] # None
    BY DEF EnvInv, EnvTypeOK, Binds
  <1>2. CASE i = home /\ name = called
    BY <1>1, <1>2, SymbolAssumption DEF Frame
  <1>3. CASE ~(i = home /\ name = called)
    <2>1. frames'[i][name] = frames[i][name]
      BY <1>1, <1>3 DEF Frame
    <2>. QED  BY <1>1, <2>1 DEF KeepsBorrows
  <1>. QED  BY <1>2, <1>3

LEMMA AddBindingKeeps ==
  ASSUME EnvInv, NEW name \in Names, NEW symbol \in NewSymbol,
         addBinding(name, symbol)
  PROVE  BorrowsKept
  <1>1. /\ Len(frames) \in DOMAIN frames
        /\ frames[Len(frames)][name] = None
        /\ currentLifetime \in Nat
    BY DEF addBinding, DeclaredHere, Binds, EnvInv, EnvTypeOK, currentLifetime
  <1>. QED  BY <1>1, NewSymbolType, UpdateKeeps DEF addBinding

\* Freeing a copy's buffer leaves the mutable borrow alone.
LEMMA FreedKeeps ==
  ASSUME NEW depth \in Nat, NEW old, NEW new \in SymbolInfo, NEW buffer,
         KeepsBorrows(old, new, depth), NEW freed \in CopyFreed(new, buffer)
  PROVE  KeepsBorrows(old, freed, depth)
  BY DEF CopyFreed, SymbolInfo, KeepsBorrows

LEMMA BorrowKeeps ==
  ASSUME EnvInv, NEW name \in Names,
         \/ incrementImmutableBorrow(name)
         \/ setMutableBorrow(name)
         \/ RefusedBorrow(name)
  PROVE  BorrowsKept
  <1>. DEFINE depth  == Len(frames)
              symbol == lookup(name)
  <1>1. Bound(name)
    BY NoneAssumption DEF incrementImmutableBorrow, incrementImmutableBorrowError,
                          setMutableBorrow, setMutableBorrowError, RefusedBorrow,
                          CompileErrors
  <1>2. /\ Home(name) \in DOMAIN frames
        /\ frames[Home(name)][name] # None
        /\ symbol = frames[Home(name)][name]
    BY <1>1, HomeBinds DEF EnvInv
  <1>3. /\ depth \in Nat
        /\ Home(name) \in 1 .. depth
        /\ Sound(Home(name), symbol, depth)
        /\ symbol \in SymbolInfo
    BY <1>2 DEF EnvInv, EnvTypeOK, Sound
  <1>. HIDE DEF symbol
  <1>4. CASE incrementImmutableBorrow(name)
    <2>1. PICK new \in CopyFreed(Appended(symbol, depth - 1), symbol.buffer) :
            Update(name, new)
      BY <1>4 DEF incrementImmutableBorrow, currentLifetime, symbol
    <2>2. symbol.active_mutable_borrow = None
      BY <1>1, <1>4, NoneAssumption
      DEF incrementImmutableBorrow, incrementImmutableBorrowError, CompileErrors, symbol
    <2>3. Sound(Home(name), Appended(symbol, depth - 1), depth)
      BY <1>3, <2>2, SoundWhenBorrowed
    <2>4. Sound(Home(name), new, depth)
      BY <1>3, <2>1, <2>3, SoundWhenFreed
    <2>5. KeepsBorrows(symbol, Appended(symbol, depth - 1), depth)
      BY <1>3 DEF KeepsBorrows, Appended, SymbolInfo
    <2>6. KeepsBorrows(symbol, new, depth)
      BY <1>3, <2>1, <2>3, <2>5, FreedKeeps DEF Sound
    <2>. QED  BY <1>2, <2>1, <2>4, <2>6, UpdateKeeps DEF Update, Sound
  <1>5. CASE setMutableBorrow(name)
    <2>. DEFINE set == [symbol EXCEPT !.active_mutable_borrow = depth - 1]
    <2>1. PICK new \in CopyFreed(set, symbol.buffer) : Update(name, new)
      BY <1>5 DEF setMutableBorrow, currentLifetime, symbol
    <2>2. /\ symbol.active_mutable_borrow = None
          /\ symbol.active_immutable_borrows = {}
          /\ symbol.is_mut
      BY <1>1, <1>5, NoneAssumption
      DEF setMutableBorrow, setMutableBorrowError, CompileErrors, symbol
    <2>3. Sound(Home(name), set, depth)
      BY <1>3, <2>2, SoundWhenBorrowed
    <2>4. Sound(Home(name), new, depth)
      BY <1>3, <2>1, <2>3, SoundWhenFreed
    <2>5. KeepsBorrows(symbol, set, depth)
      BY <1>3, <2>2, NoneAssumption DEF KeepsBorrows, SymbolInfo
    <2>6. KeepsBorrows(symbol, new, depth)
      BY <1>3, <2>1, <2>3, <2>5, FreedKeeps DEF Sound
    <2>. QED  BY <1>2, <2>1, <2>4, <2>6, UpdateKeeps DEF Update, Sound
  <1>6. CASE RefusedBorrow(name)
    <2>1. PICK new \in CopyFreed(symbol, symbol.buffer) : Update(name, new)
      BY <1>6 DEF RefusedBorrow, symbol
    <2>2. Sound(Home(name), new, depth)
      BY <1>3, <2>1, SoundWhenFreed
    <2>3. KeepsBorrows(symbol, new, depth)
      BY <1>3, <2>1, FreedKeeps DEF KeepsBorrows
    <2>. QED  BY <1>2, <2>1, <2>2, <2>3, UpdateKeeps DEF Update, Sound
  <1>. QED  BY <1>4, <1>5, <1>6

\* A borrow ends with the scope of its borrower, and not before.
THEOREM BorrowsLast == EnvSpec => BorrowsLastAsLongAsTheirScope
  <1>1. EnvInv /\ [EnvNext]_frames => [BorrowsKept]_frames
    <2>. SUFFICES ASSUME EnvInv, EnvNext PROVE BorrowsKept
      OBVIOUS
    <2>1. ASSUME NEW name \in Names,
                 \/ incrementImmutableBorrow(name)
                 \/ setMutableBorrow(name)
                 \/ RefusedBorrow(name)
          PROVE  BorrowsKept
      BY <2>1, BorrowKeeps
    <2>2. ASSUME NEW name \in Names, NEW symbol \in NewSymbol, addBinding(name, symbol)
          PROVE  BorrowsKept
      BY <2>2, AddBindingKeeps
    <2>. QED  BY <2>1, <2>2, PushFrameKeeps, PopFrameKeeps DEF EnvNext
  <1>2. EnvSpec => [][BorrowsKept]_frames
    BY <1>1, EnvInvInductive, PTL DEF EnvSpec
  <1>. QED  BY <1>2 DEF BorrowsKept, BorrowsLastAsLongAsTheirScope
=============================================================================
