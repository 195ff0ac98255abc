----------------------------- MODULE NodeAccess -----------------------------
(***************************************************************************)
(* What a request reaches once the OID search has found its node: a table  *)
(* or a scalar of MIB-2, a node of another thread, or a handler of the     *)
(* application.  These share no variable, so a behaviour goes through one  *)
(* of them; going through several would add interleavings of steps that    *)
(* commute.                                                                *)
(***************************************************************************)
EXTENDS Mib2Tables, Mib2Scalars, ThreadSync, Handlers

VARIABLE part      \* "tables", "scalars", "sync" or "handlers"

vars == <<part, tableVars, scalarVars, syncVars, handlerVars>>

\* Only behaviours of the tables differ in how a walk starts.
OneWalk == CHOOSE s \in WalkStarts : TRUE
Init ==
  /\ part \in {"tables", "scalars", "sync", "handlers"}
  /\ TablesInit /\ ScalarsInit /\ SyncInit /\ HandlersInit
  /\ part # "tables" => <<walk.table, walk.start>> = OneWalk

Next ==
  \/ /\ part = "tables"
     /\ TablesStep \/ StackStep
     /\ UNCHANGED <<part, scalarVars, syncVars, handlerVars>>
  \/ /\ part = "scalars"
     /\ ScalarsStep
     /\ UNCHANGED <<part, tableVars, syncVars, handlerVars>>
  \/ /\ part = "sync"
     /\ SyncStep
     /\ UNCHANGED <<part, tableVars, scalarVars, handlerVars>>
  \/ /\ part = "handlers"
     /\ HandlersStep
     /\ UNCHANGED <<part, tableVars, scalarVars, syncVars>>

Spec == Init /\ [][Next]_vars /\ SyncFairness
=============================================================================
