------------------------------ MODULE Settings ------------------------------
(***************************************************************************)
(* pkg/config/settings.go: every setting has a default, perhaps a value    *)
(* the operator gave on start-up (a flag) and perhaps one set in the web   *)
(* UI; of the last two the more recent wins.  Both are kept in the state   *)
(* database, row by row, and a row that cannot be written is only warned   *)
(* about.                                                                  *)
(*                                                                         *)
(*   flags      what the operator gave this time                           *)
(*   top        the last sequence number handed out                        *)
(*   layer      of each key: both values and when they were set            *)
(*   rows       the same in the database                                   *)
(*   effective  the config the modules read                                *)
(*                                                                         *)
(* A crash in the middle of a batch leaves the same rows as a batch whose  *)
(* later rows could not be written, so that batches are one step.  Values  *)
(* that do not decode, and a disabled database, are left out.              *)
(***************************************************************************)
EXTENDS Naturals, FiniteSets, FiniteSetsExt, Functions

CONSTANTS
    Keys,       \* the fields, 1 .. n in the order of Fields()
    Values,
    Default,    \* the default of every key
    None,       \* no value
    MaxTop      \* bound: sequence numbers

ASSUME SettingsAssumption ==
    /\ Keys \subseteq Nat \ {0} /\ IsFiniteSet(Keys) /\ MaxTop \in Nat
    /\ Default \in Values /\ None \notin Values

VARIABLES flags, top, layer, rows, effective

settingVars == <<flags, top, layer, rows, effective>>

Absent == [cli |-> None, cliSeq |-> 0, ui |-> None, uiSeq |-> 0]

\* recompute: the layer with the highest number, over the default.
Winner(l) ==
    IF l.uiSeq > l.cliSeq THEN l.ui
    ELSE IF l.cliSeq > 0 THEN l.cli ELSE Default

Recompute(ls) == [k \in Keys |-> Winner(ls[k])]

-----------------------------------------------------------------------------
(* NewService.                                                             *)

\* Mutant of HighWater: only what the operator set counts.
HighWaterCli == Max({0} \cup {rows[k].cliSeq : k \in Keys})

\* Pass 1: the highest number in use.
HighWater == Max({0} \cup {rows[k].cliSeq : k \in Keys} \cup {rows[k].uiSeq : k \in Keys})

\* Pass 2: a new or changed flag is a fresh write, an unchanged one keeps its number, one
\* that is gone takes its layer along.
Fresh(given) == {k \in Keys : given[k] # None /\ given[k] # rows[k].cli}
Dropped(given) == {k \in Keys : given[k] = None /\ rows[k].cli # None}

Loaded(given) ==
    [k \in Keys |->
       [rows[k] EXCEPT !.cli = given[k],
                       !.cliSeq = IF given[k] = None THEN 0
                                  ELSE IF k \in Fresh(given)
                                       THEN HighWater + Cardinality({j \in Fresh(given) : j <= k})
                                       ELSE @]]

\* Writing a changed row can fail.
NewService(given) ==
    /\ HighWater + Cardinality(Fresh(given)) <= MaxTop
    /\ flags' = given
    /\ layer' = Loaded(given)
    /\ top' = HighWater + Cardinality(Fresh(given))
    /\ \E written \in SUBSET (Fresh(given) \cup Dropped(given)) :
         rows' = [k \in Keys |-> IF k \in written THEN layer'[k] ELSE rows[k]]
    /\ effective' = Recompute(layer')

\* The first start, on an empty database: every flag is new.
SettingsInit(given) ==
    LET supplied == {k \in Keys : given[k] # None} IN
    /\ flags = given
    /\ layer = [k \in Keys |->
                  [Absent EXCEPT !.cli = given[k],
                                 !.cliSeq = Cardinality({j \in supplied : k \in supplied /\ j <= k})]]
    /\ top = Cardinality(supplied)
    /\ \E written \in SUBSET supplied :
         rows = [k \in Keys |-> IF k \in written THEN layer[k] ELSE Absent]
    /\ effective = Recompute(layer)

-----------------------------------------------------------------------------
(* SetMany, under the service's mutex.                                     *)

\* The batch is a map: its keys are numbered in any order.  Each row is written in a
\* transaction of its own; in the end the config is recomputed.
SetMany(updates) ==
    LET keys == DOMAIN updates IN
    /\ top + Cardinality(keys) <= MaxTop
    /\ top' = top + Cardinality(keys)
    /\ \E number \in Bijection(keys, top + 1 .. top') :
         layer' = [k \in Keys |-> IF k \in keys
                                  THEN [layer[k] EXCEPT !.ui = updates[k], !.uiSeq = number[k]]
                                  ELSE layer[k]]
    /\ \E written \in SUBSET keys :
         rows' = [k \in Keys |-> IF k \in written THEN layer'[k] ELSE rows[k]]
    /\ effective' = Recompute(layer')
    /\ UNCHANGED flags

-----------------------------------------------------------------------------
(* Properties.                                                             *)

Known(k) == rows[k] = layer[k]

\* What a start makes of a key whose row was written: a flag that was changed wins over
\* everything older, one that was not leaves the setting as it was, and without one the
\* web UI's value is back.  Whatever was set, restarted, lost and half applied before
\* (NewService, persist, recompute).
StartKeeps(k, given) ==
    Known(k) =>
      effective'[k] = CASE given[k] = flags[k] -> Winner(layer[k])
                        [] given[k] # flags[k] /\ given[k] # None -> given[k]
                        [] OTHER -> IF layer[k].ui # None THEN layer[k].ui ELSE Default
=============================================================================
