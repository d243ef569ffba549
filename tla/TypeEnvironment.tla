-------------------------- MODULE TypeEnvironment --------------------------
(***************************************************************************)
(* The stack of scopes the type checker keeps its bindings and borrows in  *)
(* (src/vm/type_environment.zig).  A frame maps names to SymbolInfo; the   *)
(* lifetime of a scope is the index of its frame, so sibling blocks use    *)
(* the same lifetime one after the other.                                  *)
(*                                                                         *)
(* lookup returns a SymbolInfo by value.  The copy shares the buffer of    *)
(* active_immutable_borrows with the binding, and both borrow handlers of  *)
(* the type checker deinit the copy, so the field buffer follows what the  *)
(* binding's list points to:                                               *)
(*   "none"   nothing was ever appended, there is no buffer                *)
(*   "live"   a buffer the binding owns                                    *)
(*   "freed"  a buffer some copy has freed; the list still points into it  *)
(* After a free the entries read as before (release builds) or as filler   *)
(* (debug builds), which no frame has as its lifetime: Poison.             *)
(*                                                                         *)
(* A list is modelled as a set: the scan of popFrame removes every copy of *)
(* a lifetime, and the code only asks whether a list is empty.  Growth of  *)
(* a buffer past its first capacity (eight or more entries) is left out.   *)
(***************************************************************************)
EXTENDS Types

CONSTANT Poison      \* what a freed list entry reads as in a debug build

ASSUME PoisonAssumption == Poison \notin Nat /\ Poison # None

VARIABLE frames      \* the scopes, outermost first

-----------------------------------------------------------------------------
(* Symbols *)

LifetimeId == Nat

SymbolInfo ==
  [type_name : Types,
   is_mut : BOOLEAN,
   func_sig : FunctionSignature \cup {None},
   declaration_lifetime : LifetimeId,
   active_immutable_borrows : SUBSET (LifetimeId \cup {Poison}),
   active_mutable_borrow : LifetimeId \cup {None},
   buffer : {"none", "live", "freed"}]

ASSUME SymbolAssumption == None \notin SymbolInfo

create(type, mutable, lifetime) ==
  [type_name |-> type,
   is_mut |-> mutable,
   func_sig |-> None,
   declaration_lifetime |-> lifetime,
   active_immutable_borrows |-> {},
   active_mutable_borrow |-> None,
   buffer |-> "none"]

createFunc(signature, lifetime) ==
  [create("Undefined", FALSE, lifetime) EXCEPT !.func_sig = signature]

\* The binding's list after append(lifetime).
Appended(symbol, lifetime) ==
  [symbol EXCEPT !.active_immutable_borrows = @ \cup {lifetime},
                 !.buffer = IF @ = "none" THEN "live" ELSE @]

\* What the binding may hold once deinit has run on a copy of it made when
\* its list pointed to buffer.
CopyFreed(symbol, buffer) ==
  IF buffer = "none"
    THEN {symbol}
    ELSE LET entries == symbol.active_immutable_borrows
         IN  {[symbol EXCEPT !.active_immutable_borrows = read,
                             !.buffer = "freed"] :
                read \in {entries, IF entries = {} THEN {} ELSE {Poison}}}

-----------------------------------------------------------------------------
(* Frames *)

EmptyFrame == [name \in Names |-> None]

Frame == [Names -> SymbolInfo \cup {None}]

\* Fault: the lifetime is the number of frames.
nextLifetime == Len(frames)

currentLifetime == Len(frames) - 1

Binds(i, name) == i \in DOMAIN frames /\ frames[i][name] # None

\* The frame where the scan from the innermost frame outwards finds name.
StopsAt(i, name) ==
  Binds(i, name) /\ \A j \in DOMAIN frames : j > i => ~Binds(j, name)

Bound(name) == \E i \in DOMAIN frames : StopsAt(i, name)

Home(name) == CHOOSE i \in DOMAIN frames : StopsAt(i, name)

lookup(name) == IF Bound(name) THEN frames[Home(name)][name] ELSE None

DeclaredHere(name) == Binds(Len(frames), name)

\* Faults: immutable borrows are not released, or all of them are.
EndMutableOnly(symbol, ending) ==
  [symbol EXCEPT !.active_mutable_borrow = IF @ = ending THEN None ELSE @]
EndEveryBorrow(symbol, ending) ==
  [symbol EXCEPT !.active_mutable_borrow = IF @ = ending THEN None ELSE @,
                 !.active_immutable_borrows = {}]

\* popFrame's scan of one symbol of an outer frame.
EndLifetime(symbol, ending) ==
  [symbol EXCEPT
     !.active_mutable_borrow = IF @ = ending THEN None ELSE @,
     !.active_immutable_borrows = @ \ {ending}]

Released(frame, ending) ==
  [name \in Names |->
     IF frame[name] = None THEN None ELSE EndLifetime(frame[name], ending)]

-----------------------------------------------------------------------------
(* Operations *)

EnvInit == frames = <<>>

pushFrame == frames' = Append(frames, EmptyFrame)

\* On an empty environment popFrame only prints a warning.
popFrame ==
  frames' = IF frames = <<>>
              THEN frames
              ELSE [i \in 1 .. (Len(frames) - 1) |->
                      Released(frames[i], currentLifetime)]

\* Fault: every binding goes to the global frame.
addGlobalBinding(name, symbol) ==
  /\ frames # <<>>
  /\ ~DeclaredHere(name)
  /\ frames' = [frames EXCEPT ![1][name] = symbol]

\* The success of addBinding; DeclaredHere(name) is its error.
addBinding(name, symbol) ==
  /\ frames # <<>>
  /\ ~DeclaredHere(name)
  /\ frames' = [frames EXCEPT ![Len(frames)][name] = symbol]

Update(name, symbol) == frames' = [frames EXCEPT ![Home(name)][name] = symbol]

incrementImmutableBorrowError(name) ==
  IF ~Bound(name) THEN "UnboundName"
  ELSE IF lookup(name).active_mutable_borrow # None THEN "BorrowConflictMutable"
  ELSE None

setMutableBorrowError(name) ==
  IF ~Bound(name) THEN "UnboundName"
  ELSE IF lookup(name).active_mutable_borrow # None THEN "BorrowConflictMutable"
  ELSE IF lookup(name).active_immutable_borrows # {} THEN "BorrowConflictImmutable"
  ELSE IF ~lookup(name).is_mut THEN "MutationOfImmutable"
  ELSE None

\* A successful borrow as its caller performs it: lookup a copy, update the
\* binding, deinit the copy on return.
incrementImmutableBorrow(name) ==
  /\ incrementImmutableBorrowError(name) = None
  /\ \E symbol \in CopyFreed(Appended(lookup(name), currentLifetime),
                             lookup(name).buffer) :
       Update(name, symbol)

\* Fault: the search for the binding goes on to those that it shadows.
setMutableBorrowThroughout(name) ==
  /\ setMutableBorrowError(name) = None
  /\ frames' = [i \in DOMAIN frames |->
                 IF Binds(i, name)
                   THEN [frames[i] EXCEPT ![name].active_mutable_borrow = currentLifetime]
                   ELSE frames[i]]

setMutableBorrow(name) ==
  /\ setMutableBorrowError(name) = None
  /\ \E symbol \in CopyFreed([lookup(name) EXCEPT
                                !.active_mutable_borrow = currentLifetime],
                             lookup(name).buffer) :
       Update(name, symbol)

\* A refused borrow whose caller had its copy already and deinits it.
RefusedBorrow(name) ==
  /\ Bound(name)
  /\ \E symbol \in CopyFreed(lookup(name), lookup(name).buffer) :
       Update(name, symbol)

\* What the type checker adds to a frame.
NewSymbol ==
  {create(type, mutable, currentLifetime) : type \in Types, mutable \in BOOLEAN}
    \cup {createFunc(signature, currentLifetime) : signature \in FunctionSignature}

EnvNext ==
  \/ pushFrame
  \/ popFrame
  \/ \E name \in Names :
       \/ \E symbol \in NewSymbol : addBinding(name, symbol)
       \/ incrementImmutableBorrow(name)
       \/ setMutableBorrow(name)
       \/ RefusedBorrow(name)

EnvSpec == EnvInit /\ [][EnvNext]_frames

-----------------------------------------------------------------------------
(* Properties *)

\* The scopes hold well-formed symbols.
EnvTypeOK == frames \in Seq(Frame)

\* A variable that is mutably borrowed has no immutable borrows and was
\* declared mut: the borrow rules the two borrow operations enforce between
\* them, however scopes, shadowing and refused borrows interleave.
MutXorShared ==
  \A i \in DOMAIN frames : \A name \in Names :
    Binds(i, name) /\ frames[i][name].active_mutable_borrow # None =>
      /\ frames[i][name].active_immutable_borrows = {}
      /\ frames[i][name].is_mut

\* The recorded lifetime of a symbol is the index of the frame that holds it,
\* so that nothing lookup returns was declared in a scope deeper than the
\* current one: what the lifetime tests of the borrow checks rely on.
LifetimeIsFrame ==
  \A i \in DOMAIN frames : \A name \in Names :
    Binds(i, name) => frames[i][name].declaration_lifetime = i - 1

\* A recorded borrower is a scope that is still open and not outside the
\* scope of the borrowed variable.  popFrame must therefore release a
\* scope's borrows before a sibling scope reuses its lifetime.
BorrowersAreOpenScopes ==
  \A i \in DOMAIN frames : \A name \in Names :
    Binds(i, name) =>
      /\ frames[i][name].active_immutable_borrows \ {Poison}
           \subseteq (i - 1) .. currentLifetime
      /\ frames[i][name].active_mutable_borrow
           \in ((i - 1) .. currentLifetime) \cup {None}

\* The borrows of a symbol by the scopes that are open at a depth all stay,
\* unless the list's buffer has been freed.
KeepsBorrows(old, new, depth) ==
  /\ old.active_mutable_borrow \in 0 .. (depth - 1) =>
       new.active_mutable_borrow = old.active_mutable_borrow
  /\ new.buffer # "freed" =>
       old.active_immutable_borrows \cap 0 .. (depth - 1)
         \subseteq new.active_immutable_borrows

\* Only the end of the borrowing scope ends a borrow: as long as the frame of
\* the borrowed variable and the borrower's scope stay open, the borrow does.
BorrowsLastAsLongAsTheirScope ==
  [][\A i \in DOMAIN frames \cap DOMAIN frames' : \A name \in Names :
       Binds(i, name) =>
         /\ frames'[i][name] # None
         /\ KeepsBorrows(frames[i][name], frames'[i][name], Len(frames'))]_frames
=============================================================================
