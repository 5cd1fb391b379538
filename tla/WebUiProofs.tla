---------------------------- MODULE WebUiProofs ----------------------------
(***************************************************************************)
(* Proofs about the settings, the event stream and the requests that       *)
(* connect them.  The settings' layers and rows are sound by themselves    *)
(* (SettingsInv); the stream's numbers are in order in the cache and in    *)
(* the channel of the browser (StreamInv); and a config that a browser     *)
(* does not show is on its way to it (ConfigOnItsWay).                     *)
(***************************************************************************)
EXTENDS WebUi, FiniteSetTheorems, SequenceTheorems, WellFoundedInduction, TLAPS

-----------------------------------------------------------------------------
(* Settings.                                                               *)

Layers == [cli : Values \cup {None}, cliSeq : Nat, ui : Values \cup {None}, uiSeq : Nat]

\* A value and its number are there together, and no number is past t.
Sound(l, t) ==
    /\ l.cli # None <=> l.cliSeq > 0
    /\ l.ui # None <=> l.uiSeq > 0
    /\ l.cliSeq <= t /\ l.uiSeq <= t

SettingsInv ==
    /\ top \in Nat
    /\ layer \in [Keys -> Layers] /\ rows \in [Keys -> Layers]
    /\ \A k \in Keys : Sound(layer[k], top) /\ Sound(rows[k], top) /\ layer[k].cli = flags[k]
    /\ effective = Recompute(layer)

\* A set of naturals that is not empty has a least element.
LEMMA LeastNatural ==
    ASSUME NEW T \in SUBSET Nat, T # {}
    PROVE  \E x \in T : \A y \in T : x <= y
<1> DEFINE R == OpToRel(<, Nat)
<1>1. IsWellFoundedOn(R, Nat)
  BY NatLessThanWellFounded
<1>2. \A x, y \in Nat : x < y => <<x, y>> \in R
  BY DEF OpToRel
<1> HIDE DEF R
<1>3. PICK x \in T : \A y \in T : ~(<<y, x>> \in R)
  BY <1>1, WFMin
<1>4. \A y \in T : x <= y
  <2> TAKE y \in T
  <2>1. x \in Nat /\ y \in Nat
    OBVIOUS
  <2>2. ~(y < x)
    BY <1>2, <1>3, <2>1
  <2> QED BY <2>1, <2>2
<1> QED BY <1>4

\* A set of naturals with a bound has a largest element.
LEMMA GreatestNatural ==
    ASSUME NEW T \in SUBSET Nat, T # {}, NEW n \in Nat, \A x \in T : x <= n
    PROVE  Max(T) \in T /\ \A y \in T : y <= Max(T)
<1> DEFINE D == {d \in Nat : n - d \in T}
<1>1. D # {}
  <2>1. PICK x \in T : TRUE
    OBVIOUS
  <2>2. n - x \in Nat /\ n - (n - x) = x
    OBVIOUS
  <2> QED BY <2>1, <2>2
<1>2. PICK d \in D : \A e \in D : d <= e
  BY <1>1, LeastNatural
<1>3. ASSUME NEW y \in T PROVE n - d >= y
  <2>1. n - y \in Nat /\ n - (n - y) = y
    OBVIOUS
  <2>2. d <= n - y
    BY <1>2, <2>1
  <2> QED BY <2>2
<1>4. \E x \in T : \A y \in T : x >= y
  BY <1>3
<1>5. Max(T) \in T /\ \A y \in T : Max(T) >= y
  BY <1>4 DEF Max
<1> QED BY <1>5

\* HighWater is past every number in the rows, and handed out.
LEMMA HighWaterBounds ==
    ASSUME rows \in [Keys -> Layers], NEW t \in Nat, \A k \in Keys : Sound(rows[k], t)
    PROVE  /\ HighWater \in Nat /\ HighWater <= t
           /\ \A k \in Keys : rows[k].cliSeq <= HighWater /\ rows[k].uiSeq <= HighWater
<1> DEFINE T == {0} \cup {rows[k].cliSeq : k \in Keys} \cup {rows[k].uiSeq : k \in Keys}
<1>1. T \in SUBSET Nat /\ T # {} /\ \A x \in T : x <= t
  BY DEF Layers, Sound
<1>2. Max(T) \in T /\ \A y \in T : y <= Max(T)
  BY <1>1, GreatestNatural
<1>3. HighWater = Max(T)
  BY DEF HighWater
<1> HIDE DEF T
<1>4. HighWater \in T /\ \A y \in T : y <= HighWater
  BY <1>2, <1>3
<1>5. \A k \in Keys : rows[k].cliSeq \in T /\ rows[k].uiSeq \in T
  BY DEF T
<1> QED BY <1>1, <1>4, <1>5

\* Keys numbered in their order.
LEMMA KeyNumbers ==
    ASSUME NEW S \in SUBSET Keys
    PROVE  /\ Cardinality(S) \in Nat
           /\ \A k \in S : LET n == Cardinality({j \in S : j <= k})
                           IN  n \in Nat /\ n > 0 /\ n <= Cardinality(S)
<1>1. IsFiniteSet(S) /\ Cardinality(S) \in Nat
  BY SettingsAssumption, FS_Subset, FS_CardinalityType
<1>2. ASSUME NEW k \in S
      PROVE  LET n == Cardinality({j \in S : j <= k})
             IN  n \in Nat /\ n > 0 /\ n <= Cardinality(S)
  <2> DEFINE T == {j \in S : j <= k}
  <2>1. T \in SUBSET S /\ k \in T
    BY SettingsAssumption
  <2>2. IsFiniteSet(T) /\ Cardinality(T) <= Cardinality(S) /\ Cardinality(T) \in Nat
    BY <1>1, <2>1, FS_Subset, FS_CardinalityType
  <2>3. Cardinality(T) # 0
    BY <2>1, <2>2, FS_EmptySet
  <2> QED BY <2>2, <2>3
<1> QED BY <1>1, <1>2

\* The numbers a start hands out.
LEMMA FreshNumbers ==
    ASSUME NEW given
    PROVE  /\ Cardinality(Fresh(given)) \in Nat
           /\ \A k \in Fresh(given) :
                LET n == Cardinality({j \in Fresh(given) : j <= k})
                IN  n \in Nat /\ n > 0 /\ n <= Cardinality(Fresh(given))
<1>1. Fresh(given) \in SUBSET Keys
  BY DEF Fresh
<1> QED BY <1>1, KeyNumbers

\* What a start makes of sound rows.
LEMMA LoadedSound ==
    ASSUME rows \in [Keys -> Layers], NEW t \in Nat, \A k \in Keys : Sound(rows[k], t),
           NEW given \in CommandLines
    PROVE  /\ Loaded(given) \in [Keys -> Layers]
           /\ HighWater + Cardinality(Fresh(given)) \in Nat
           /\ \A k \in Keys :
                /\ Sound(Loaded(given)[k], HighWater + Cardinality(Fresh(given)))
                /\ Sound(rows[k], HighWater + Cardinality(Fresh(given)))
                /\ Loaded(given)[k].cli = given[k]
                /\ Loaded(given)[k].ui = rows[k].ui /\ Loaded(given)[k].uiSeq = rows[k].uiSeq
                /\ k \in Fresh(given) => Loaded(given)[k].cliSeq > HighWater
                /\ k \notin Fresh(given) /\ given[k] # None => Loaded(given)[k].cliSeq = rows[k].cliSeq
<1>1. /\ HighWater \in Nat
      /\ \A k \in Keys : rows[k].cliSeq <= HighWater /\ rows[k].uiSeq <= HighWater
  BY HighWaterBounds
<1>2. given \in [Keys -> Values \cup {None}]
  BY WebUiAssumption
<1>3. PICK c \in Nat : c = Cardinality(Fresh(given))
  BY FreshNumbers
<1>4. ASSUME NEW k \in Keys
      PROVE  LET l == Loaded(given)[k] IN
                /\ l \in Layers
                /\ Sound(l, HighWater + c) /\ Sound(rows[k], HighWater + c)
                /\ l.cli = given[k] /\ l.ui = rows[k].ui /\ l.uiSeq = rows[k].uiSeq
                /\ k \in Fresh(given) => l.cliSeq > HighWater
                /\ k \notin Fresh(given) /\ given[k] # None => l.cliSeq = rows[k].cliSeq
  <2> DEFINE l == Loaded(given)[k]
             n == Cardinality({j \in Fresh(given) : j <= k})
  <2>1. rows[k] \in Layers /\ Sound(rows[k], t) /\ given[k] \in Values \cup {None}
    BY <1>2
  <2>2. l = [rows[k] EXCEPT !.cli = given[k],
                            !.cliSeq = IF given[k] = None THEN 0
                                       ELSE IF k \in Fresh(given) THEN HighWater + n ELSE @]
    BY DEF Loaded
  <2>3. k \in Fresh(given) => n \in Nat /\ n > 0 /\ n <= c
    BY <1>3, FreshNumbers
  <2> HIDE DEF n, l
  <2>4. /\ l.cli = given[k] /\ l.ui = rows[k].ui /\ l.uiSeq = rows[k].uiSeq
        /\ l.cliSeq = IF given[k] = None THEN 0
                      ELSE IF k \in Fresh(given) THEN HighWater + n ELSE rows[k].cliSeq
        /\ DOMAIN l = DOMAIN rows[k]
    BY <2>1, <2>2 DEF Layers
  <2>5. l.cliSeq \in Nat /\ l \in Layers
    <3>1. l.cliSeq \in Nat
      BY <1>1, <2>1, <2>3, <2>4 DEF Layers
    <3> QED BY <2>1, <2>2, <2>4, <3>1 DEF Layers
  <2>6. k \notin Fresh(given) /\ given[k] # None => given[k] = rows[k].cli
    BY DEF Fresh
  <2>7. k \in Fresh(given) => given[k] # None
    BY DEF Fresh
  <2>8. Sound(rows[k], HighWater + c)
    BY <1>1, <1>3, <2>1 DEF Sound, Layers
  <2>9. Sound(l, HighWater + c)
    BY <1>1, <1>3, <2>1, <2>3, <2>4, <2>6, <2>7, <2>8 DEF Sound, Layers
  <2> QED BY <1>1, <2>3, <2>4, <2>5, <2>7, <2>8, <2>9 DEF l
<1>5. HighWater + c \in Nat
  BY <1>1, <1>3
<1>6. Loaded(given) \in [Keys -> Layers]
  <2>1. DOMAIN Loaded(given) = Keys /\ Loaded(given) = [k \in Keys |-> Loaded(given)[k]]
    BY DEF Loaded
  <2> QED BY <1>4, <2>1
<1> QED BY <1>3, <1>4, <1>5, <1>6

LEMMA SettingsStart ==
    ASSUME NEW given \in CommandLines, SettingsInit(given)
    PROVE  SettingsInv
<1> DEFINE supplied == {k \in Keys : given[k] # None}
<1>1. given \in [Keys -> Values \cup {None}] /\ None \notin Values
  BY WebUiAssumption, SettingsAssumption
<1>2. /\ supplied \in SUBSET Keys /\ flags = given /\ top = Cardinality(supplied)
      /\ effective = Recompute(layer)
      /\ layer = [k \in Keys |->
                    [Absent EXCEPT !.cli = given[k],
                                   !.cliSeq = Cardinality({j \in supplied : k \in supplied /\ j <= k})]]
      /\ \A k \in Keys : k \in supplied <=> given[k] # None
  BY DEF SettingsInit
<1>3. PICK written \in SUBSET supplied : rows = [k \in Keys |-> IF k \in written THEN layer[k] ELSE Absent]
  BY DEF SettingsInit
<1> HIDE DEF supplied
<1>4. top \in Nat
  BY <1>2, KeyNumbers
<1>5. Absent \in Layers /\ Sound(Absent, top)
  BY <1>4 DEF Absent, Layers, Sound
<1>6. ASSUME NEW k \in Keys
      PROVE  layer[k] \in Layers /\ Sound(layer[k], top) /\ layer[k].cli = given[k]
  <2> DEFINE n == Cardinality({j \in supplied : k \in supplied /\ j <= k})
  <2>1. /\ layer[k].cli = given[k] /\ layer[k].cliSeq = n /\ layer[k].ui = None /\ layer[k].uiSeq = 0
        /\ layer[k] = [cli |-> given[k], cliSeq |-> n, ui |-> None, uiSeq |-> 0]
    BY <1>2 DEF Absent
  <2>2. CASE k \in supplied
    <3>1. n = Cardinality({j \in supplied : j <= k})
      BY <2>2
    <3>2. n \in Nat /\ n > 0 /\ n <= top
      BY <1>2, <2>2, <3>1, KeyNumbers
    <3> HIDE DEF n
    <3>3. given[k] \in Values /\ given[k] # None
      BY <1>1, <1>2, <2>2
    <3>4. Sound(layer[k], top)
      BY <1>4, <2>1, <3>2, <3>3 DEF Sound
    <3> QED BY <2>1, <3>2, <3>3, <3>4 DEF Layers
  <2>3. CASE k \notin supplied
    <3>1. n = 0
      <4>1. {j \in supplied : k \in supplied /\ j <= k} = {}
        BY <2>3
      <4> QED BY <4>1, FS_EmptySet
    <3> HIDE DEF n
    <3>2. given[k] = None
      BY <1>2, <2>3
    <3>3. Sound(layer[k], top)
      BY <1>4, <2>1, <3>1, <3>2 DEF Sound
    <3> QED BY <2>1, <3>1, <3>2, <3>3 DEF Layers
  <2> QED BY <2>2, <2>3
<1>7. layer \in [Keys -> Layers]
  <2>1. DOMAIN layer = Keys /\ layer = [k \in Keys |-> layer[k]]
    BY <1>2
  <2> QED BY <1>6, <2>1
<1>8. rows \in [Keys -> Layers] /\ \A k \in Keys : Sound(rows[k], top)
  BY <1>3, <1>5, <1>6
<1> QED BY <1>2, <1>4, <1>6, <1>7, <1>8 DEF SettingsInv

\* Rows that are written are those of the new layers.
LEMMA RowsWritten ==
    ASSUME NEW written, NEW t, layer' \in [Keys -> Layers], rows \in [Keys -> Layers],
           rows' = [k \in Keys |-> IF k \in written THEN layer'[k] ELSE rows[k]],
           \A k \in Keys : Sound(layer'[k], t) /\ Sound(rows[k], t)
    PROVE  rows' \in [Keys -> Layers] /\ \A k \in Keys : Sound(rows'[k], t)
OBVIOUS

LEMMA NewServiceInv ==
    ASSUME SettingsInv, NEW given \in CommandLines, NewService(given)
    PROVE  SettingsInv'
<1>1. rows \in [Keys -> Layers] /\ top \in Nat /\ \A k \in Keys : Sound(rows[k], top)
  BY DEF SettingsInv
<1>2. /\ flags' = given /\ layer' = Loaded(given) /\ top' = HighWater + Cardinality(Fresh(given))
      /\ effective' = Recompute(layer')
  BY DEF NewService
<1>3. PICK written \in SUBSET (Fresh(given) \cup Dropped(given)) :
         rows' = [k \in Keys |-> IF k \in written THEN layer'[k] ELSE rows[k]]
  BY DEF NewService
<1>4. /\ layer' \in [Keys -> Layers] /\ top' \in Nat
      /\ \A k \in Keys : Sound(layer'[k], top') /\ Sound(rows[k], top') /\ layer'[k].cli = flags'[k]
  BY <1>1, <1>2, LoadedSound
<1>5. rows' \in [Keys -> Layers] /\ \A k \in Keys : Sound(rows'[k], top')
  BY <1>1, <1>3, <1>4, RowsWritten
<1>6. (effective = Recompute(layer))'
  BY <1>2 DEF Recompute
<1> QED BY <1>4, <1>5, <1>6 DEF SettingsInv

LEMMA SetManyInv ==
    ASSUME SettingsInv, NEW keys \in SUBSET Keys, NEW updates \in [keys -> Values], SetMany(updates)
    PROVE  SettingsInv' /\ \A k \in Keys \ keys : effective'[k] = effective[k]
<1>1. /\ rows \in [Keys -> Layers] /\ top \in Nat /\ layer \in [Keys -> Layers]
      /\ \A k \in Keys : Sound(layer[k], top) /\ Sound(rows[k], top) /\ layer[k].cli = flags[k]
  BY DEF SettingsInv
<1>2. PICK c \in Nat : c = Cardinality(keys)
  BY SettingsAssumption, FS_Subset, FS_CardinalityType
<1>d. DOMAIN updates = keys
  OBVIOUS
<1>n. \E n \in Bijection(DOMAIN updates, top + 1 .. top') :
         layer' = [k \in Keys |-> IF k \in DOMAIN updates
                                  THEN [layer[k] EXCEPT !.ui = updates[k], !.uiSeq = n[k]]
                                  ELSE layer[k]]
  BY DEF SetMany
<1>3. top' = top + c /\ top' \in Nat /\ flags' = flags /\ effective' = Recompute(layer')
  <2>1. top' = top + Cardinality(keys) /\ flags' = flags /\ effective' = Recompute(layer')
    BY <1>d DEF SetMany
  <2> QED BY <1>1, <1>2, <2>1
<1>4. PICK number \in Bijection(keys, top + 1 .. top') :
         layer' = [k \in Keys |-> IF k \in keys
                                  THEN [layer[k] EXCEPT !.ui = updates[k], !.uiSeq = number[k]]
                                  ELSE layer[k]]
  BY <1>d, <1>n, Zenon
<1>5. PICK written \in SUBSET keys :
         rows' = [k \in Keys |-> IF k \in written THEN layer'[k] ELSE rows[k]]
  BY <1>d DEF SetMany
<1>6. \A k \in keys : number[k] \in top + 1 .. top'
  BY DEF Bijection, Injection, Surjection
<1>7. ASSUME NEW k \in Keys
      PROVE  layer'[k] \in Layers /\ Sound(layer'[k], top') /\ Sound(rows[k], top') /\ layer'[k].cli = flags'[k]
  <2>1. layer[k] \in Layers /\ rows[k] \in Layers /\ Sound(layer[k], top) /\ Sound(rows[k], top)
    BY <1>1
  <2>2. \A l \in Layers : Sound(l, top) => Sound(l, top')
    BY <1>1, <1>3 DEF Sound, Layers
  <2>3. CASE k \notin keys
    BY <1>1, <1>3, <1>4, <2>1, <2>2, <2>3
  <2>4. CASE k \in keys
    <3> DEFINE l == layer'[k]
    <3>1. l = [layer[k] EXCEPT !.ui = updates[k], !.uiSeq = number[k]]
      BY <1>4, <2>4
    <3>2. updates[k] \in Values /\ updates[k] # None /\ number[k] \in Nat /\ number[k] > 0 /\ number[k] <= top'
      BY <1>1, <1>3, <1>6, <2>4, SettingsAssumption
    <3>3. l \in Layers /\ l.ui = updates[k] /\ l.uiSeq = number[k] /\ l.cli = layer[k].cli
          /\ l.cliSeq = layer[k].cliSeq
      BY <2>1, <3>1, <3>2 DEF Layers
    <3> HIDE DEF l
    <3>4. layer[k].cliSeq \in Nat /\ layer[k].cliSeq <= top'
      BY <1>1, <1>3, <2>1 DEF Sound, Layers
    <3>5. Sound(l, top')
      BY <2>1, <3>2, <3>3, <3>4 DEF Sound
    <3> QED BY <1>1, <1>3, <2>1, <2>2, <3>3, <3>5 DEF l
  <2> QED BY <2>3, <2>4
<1>8. layer' \in [Keys -> Layers]
  <2>1. layer' = [k \in Keys |-> layer'[k]]
    BY <1>4
  <2> QED BY <1>7, <2>1
<1>9. rows' \in [Keys -> Layers] /\ \A k \in Keys : Sound(rows'[k], top')
  BY <1>1, <1>5, <1>7, <1>8, RowsWritten
<1>10. (effective = Recompute(layer))'
  BY <1>3 DEF Recompute
<1>11. ASSUME NEW k \in Keys \ keys PROVE effective'[k] = effective[k]
  BY <1>3, <1>4 DEF SettingsInv, Recompute
<1> QED BY <1>3, <1>7, <1>8, <1>9, <1>10, <1>11 DEF SettingsInv

\* A start treats a setting whose row was written as StartKeeps says.
LEMMA StartSurvives ==
    ASSUME SettingsInv, NEW given \in CommandLines, NewService(given), NEW k \in Keys
    PROVE  StartKeeps(k, given)
<1> SUFFICES ASSUME Known(k) PROVE StartKeeps(k, given)
  BY DEF StartKeeps
<1>1. /\ rows \in [Keys -> Layers] /\ top \in Nat /\ \A j \in Keys : Sound(rows[j], top)
      /\ Sound(layer[k], top) /\ layer[k].cli = flags[k] /\ rows[k] = layer[k] /\ rows[k] \in Layers
  BY DEF SettingsInv, Known
<1>2. effective'[k] = Winner(Loaded(given)[k])
  BY DEF NewService, Recompute
<1>3. HighWater \in Nat /\ rows[k].uiSeq <= HighWater
  BY <1>1, HighWaterBounds
<1> DEFINE l == Loaded(given)[k]
<1>4. /\ l \in Layers /\ l.cli = given[k] /\ l.ui = rows[k].ui /\ l.uiSeq = rows[k].uiSeq
      /\ k \in Fresh(given) => l.cliSeq > HighWater
      /\ k \notin Fresh(given) /\ given[k] # None => l.cliSeq = rows[k].cliSeq
      /\ l.cli # None <=> l.cliSeq > 0
  <2>1. Sound(l, HighWater + Cardinality(Fresh(given)))
    BY <1>1, LoadedSound
  <2> QED BY <1>1, <2>1, LoadedSound DEF Sound
<1>5. k \in Fresh(given) <=> given[k] # None /\ given[k] # rows[k].cli
  BY DEF Fresh
<1> HIDE DEF l
<1>6. l.cliSeq \in Nat /\ l.uiSeq \in Nat /\ rows[k].cliSeq \in Nat
  BY <1>1, <1>4 DEF Layers
<1>7. CASE given[k] = flags[k]
  <2>1. l.cliSeq = rows[k].cliSeq
    BY <1>1, <1>4, <1>5, <1>6, <1>7 DEF Sound
  <2>2. Winner(l) = Winner(layer[k])
    BY <1>1, <1>4, <1>7, <2>1 DEF Winner
  <2> QED BY <1>2, <1>7, <2>2 DEF StartKeeps, l
<1>8. CASE given[k] # flags[k] /\ given[k] # None
  <2>1. Winner(l) = given[k]
    BY <1>1, <1>3, <1>4, <1>5, <1>6, <1>8 DEF Winner
  <2> QED BY <1>2, <1>8, <2>1 DEF StartKeeps, l
<1>9. CASE given[k] # flags[k] /\ given[k] = None
  <2>1. Winner(l) = IF layer[k].ui # None THEN layer[k].ui ELSE Default
    BY <1>1, <1>4, <1>6, <1>9 DEF Winner, Sound
  <2> QED BY <1>2, <1>9, <2>1 DEF StartKeeps, l
<1> QED BY <1>7, <1>8, <1>9

-----------------------------------------------------------------------------
(* The event stream.                                                       *)

Entries == [seq : Nat \ {0}, slot : Nat]
Types == {"slot", "config", "other"}
Events == [seq : Nat, type : Types]
Requests == [pc : {"none", "stream", "leave"}, todo : Seq({"config", "other", "states"}),
             ch : Seq(Events), cap : Nat, live : BOOLEAN]

StreamTypeOK ==
    /\ slot \in Nat /\ seq \in Nat
    /\ cache \in Seq(Entries)
    /\ conn \in [Conns -> Requests]
    /\ DOMAIN view = {"last", "settled", "config", "stale"}
    /\ view.last \in Nat /\ view.stale \in BOOLEAN

\* Numbers only grow: in a sequence of cached events and up to the last one handed out.
InOrder(q, n) ==
    /\ \A i, j \in 1 .. Len(q) : i < j => q[i].seq < q[j].seq
    /\ \A i \in 1 .. Len(q) : q[i].seq <= n

\* The browser has one request at a time.
OneBrowser ==
    /\ \A c \in Conns : conn[c].live => conn[c].pc = "stream"
    /\ \A c, d \in Conns : conn[c].live /\ conn[d].live => c = d

\* What is on its way to the browser is in order, a numbered config is new to it, and an
\* event that is cached is one of a slot.
ChannelInOrder(ch, last, n, q) ==
    /\ \A i, j \in 1 .. Len(ch) : i < j /\ ch[j].seq > 0 => ch[i].seq < ch[j].seq
    /\ \A j \in 1 .. Len(ch) : ch[j].seq <= n
    /\ \A j \in 1 .. Len(ch) : ch[j].type = "config" /\ ch[j].seq > 0 => last < ch[j].seq
    /\ \A j \in 1 .. Len(ch), i \in 1 .. Len(q) : ch[j].seq = q[i].seq => ch[j].type = "slot"

\* Each event of q was applied, was not sent for lack of room, or is on its way.
Reaches(q, ch, settled) ==
    \A i \in 1 .. Len(q) : q[i].seq \in settled \/ \E j \in 1 .. Len(ch) : ch[j].seq = q[i].seq

\* The browser drops no cached event that it has not applied.
DropsApplied == \A i \in 1 .. Len(cache) : cache[i].seq <= view.last => cache[i].seq \in view.settled

StreamInv ==
    /\ StreamTypeOK
    /\ InOrder(cache, seq) /\ OneBrowser /\ DropsApplied /\ view.last <= seq
    /\ \A c \in Conns : conn[c].live =>
         /\ ChannelInOrder(conn[c].ch, view.last, seq, cache)
         /\ Reaches(cache, conn[c].ch, view.settled)

\* A config that the browser does not show is on its way to it.
ConfigOnItsWay ==
    \A c \in Conns : conn[c].live =>
        \/ view.config = Config \/ view.stale \/ tell["config"] > 0
        \/ \E i \in 1 .. Len(conn[c].todo) : conn[c].todo[i] = "config"
        \/ \E j \in 1 .. Len(conn[c].ch) : conn[c].ch[j].type = "config"

WebInv ==
    /\ SettingsInv /\ StreamInv /\ ConfigOnItsWay
    /\ DOMAIN tell = {"config", "other"} /\ \A e \in {"config", "other"} : tell[e] \in Nat

-----------------------------------------------------------------------------
(* What the stream's operators compute.                                    *)

LEMMA MinOfTwo ==
    ASSUME NEW a \in Int, NEW b \in Int
    PROVE  Min({a, b}) \in Int /\ Min({a, b}) = IF a <= b THEN a ELSE b
<1>1. \E x \in {a, b} : \A y \in {a, b} : x =< y
  OBVIOUS
<1>2. Min({a, b}) \in {a, b} /\ \A y \in {a, b} : Min({a, b}) =< y
  BY <1>1 DEF Min
<1> QED BY <1>2

LEMMA MaxOfTwo ==
    ASSUME NEW a \in Int, NEW b \in Int
    PROVE  Max({a, b}) \in Int /\ Max({a, b}) = IF a >= b THEN a ELSE b
<1>1. \E x \in {a, b} : \A y \in {a, b} : x >= y
  OBVIOUS
<1>2. Max({a, b}) \in {a, b} /\ \A y \in {a, b} : Max({a, b}) >= y
  BY <1>1 DEF Max
<1> QED BY <1>2

\* Entries of a sequence r that come from q in the same order.
PartOf(r, q) ==
    /\ r \in Seq(Entries)
    /\ \A i \in 1 .. Len(r) : \E k \in 1 .. Len(q) : r[i] = q[k]
    /\ \A i, j \in 1 .. Len(r) : i < j => r[i].seq < r[j].seq

\* Newest keeps order.
LEMMA NewestIsPart ==
    ASSUME NEW q \in Seq(Entries), NEW n, InOrder(q, n)
    PROVE  PartOf(Newest(q), q)
<1> DEFINE m == Max({1, Len(q) - MaxCached + 1})
<1>1. Len(q) \in Nat /\ MaxCached \in Nat
  BY StreamAssumption
<1>2. m \in Int /\ m >= 1
  <2>1. Len(q) - MaxCached + 1 \in Int
    BY <1>1
  <2> QED BY <2>1, MaxOfTwo
<1>3. Newest(q) = SubSeq(q, m, Len(q))
  BY DEF Newest
<1> HIDE DEF m
<1>4. \A i \in m .. Len(q) : q[i] \in Entries
  BY <1>1, <1>2
<1> DEFINE r == SubSeq(q, m, Len(q))
<1>5. /\ r \in Seq(Entries)
      /\ Len(r) = IF m <= Len(q) THEN Len(q) - m + 1 ELSE 0
      /\ \A i \in 1 .. Len(q) - m + 1 : r[i] = q[m + i - 1]
  BY <1>1, <1>2, <1>4, SubSeqProperties
<1> HIDE DEF r
<1>6. \A i \in 1 .. Len(r) : m + i - 1 \in 1 .. Len(q) /\ r[i] = q[m + i - 1]
  BY <1>1, <1>2, <1>5
<1>7. \A i, j \in 1 .. Len(r) : i < j => r[i].seq < r[j].seq
  <2> SUFFICES ASSUME NEW i \in 1 .. Len(r), NEW j \in 1 .. Len(r), i < j PROVE r[i].seq < r[j].seq
    OBVIOUS
  <2>1. m + i - 1 < m + j - 1
    BY <1>2, <1>5
  <2> QED BY <1>6, <2>1 DEF InOrder
<1> QED BY <1>3, <1>5, <1>6, <1>7 DEF PartOf, r

\* Stamped events follow the cached ones.
LEMMA CachedIsPart ==
    ASSUME StreamInv, NEW s \in Nat, NEW n \in Nat
    PROVE  /\ Cached(s, n) \in Seq(Entries) /\ InOrder(Cached(s, n), seq + n)
           /\ \A i \in 1 .. Len(Cached(s, n)) :
                \/ \E k \in 1 .. Len(cache) : Cached(s, n)[i].seq = cache[k].seq
                \/ \E k \in 1 .. n : Cached(s, n)[i].seq = seq + k
<1> DEFINE new == [i \in 1 .. n |-> [seq |-> seq + i, slot |-> s]]
           q == cache \o new
<1>1. seq \in Nat /\ cache \in Seq(Entries) /\ InOrder(cache, seq)
  BY DEF StreamInv, StreamTypeOK
<1>2. new \in Seq(Entries) /\ Len(new) = n
  <2>1. \A i \in 1 .. n : [seq |-> seq + i, slot |-> s] \in Entries
    BY <1>1 DEF Entries
  <2> QED BY <2>1
<1>3. \A i \in 1 .. n : new[i].seq = seq + i
  OBVIOUS
<1> HIDE DEF new
<1>4. /\ q \in Seq(Entries) /\ Len(q) = Len(cache) + n
      /\ \A i \in 1 .. Len(q) : q[i] = IF i <= Len(cache) THEN cache[i] ELSE new[i - Len(cache)]
  BY <1>1, <1>2, ConcatProperties
<1> HIDE DEF q
<1>5. ASSUME NEW i \in 1 .. Len(q)
      PROVE  /\ q[i].seq \in Nat
             /\ i <= Len(cache) => q[i].seq = cache[i].seq /\ q[i].seq <= seq
             /\ i > Len(cache) => q[i].seq = seq + (i - Len(cache)) /\ i - Len(cache) \in 1 .. n
  <2>1. CASE i <= Len(cache)
    <3>1. i \in 1 .. Len(cache) /\ q[i] = cache[i] /\ cache[i] \in Entries
      BY <1>1, <1>4, <2>1
    <3>2. cache[i].seq \in Nat /\ cache[i].seq <= seq
      BY <1>1, <3>1 DEF InOrder, Entries
    <3> QED BY <1>1, <2>1, <3>1, <3>2
  <2>2. CASE i > Len(cache)
    <3>1. i - Len(cache) \in 1 .. n
      BY <1>1, <1>4, <2>2
    <3> QED BY <1>1, <1>3, <1>4, <2>2, <3>1
  <2> QED BY <1>1, <1>4, <2>1, <2>2
<1>6. InOrder(q, seq + n)
  <2>1. \A i \in 1 .. Len(q) : q[i].seq <= seq + n
    BY <1>1, <1>5
  <2>2. ASSUME NEW i \in 1 .. Len(q), NEW j \in 1 .. Len(q), i < j PROVE q[i].seq < q[j].seq
    <3>1. CASE j <= Len(cache)
      <4>1. i \in 1 .. Len(cache) /\ j \in 1 .. Len(cache)
        BY <1>1, <2>2, <3>1
      <4> QED BY <1>1, <1>5, <2>2, <4>1 DEF InOrder
    <3>2. CASE j > Len(cache) /\ i <= Len(cache)
      BY <1>1, <1>5, <2>2, <3>2
    <3>3. CASE j > Len(cache) /\ i > Len(cache)
      BY <1>1, <1>5, <2>2, <3>3
    <3> QED BY <1>1, <3>1, <3>2, <3>3
  <2> QED BY <2>1, <2>2 DEF InOrder
<1>7. PartOf(Newest(q), q)
  BY <1>4, <1>6, NewestIsPart
<1>8. Cached(s, n) = Newest(q)
  BY DEF Cached, q, new
<1>9. ASSUME NEW i \in 1 .. Len(Newest(q))
      PROVE  /\ Newest(q)[i].seq <= seq + n
             /\ \/ \E k \in 1 .. Len(cache) : Newest(q)[i].seq = cache[k].seq
                \/ \E k \in 1 .. n : Newest(q)[i].seq = seq + k
  <2>1. PICK k \in 1 .. Len(q) : Newest(q)[i] = q[k]
    BY <1>7 DEF PartOf
  <2>2. k <= Len(cache) => k \in 1 .. Len(cache)
    BY <1>1
  <2>3. k <= Len(cache) \/ k > Len(cache)
    BY <1>1
  <2> QED BY <1>5, <1>6, <2>1, <2>2, <2>3 DEF InOrder
<1> QED BY <1>7, <1>8, <1>9 DEF PartOf, InOrder

\* The loop of pruneEventCache: there is a function that says what is kept of the first i
\* entries, and each of its values is a part of q.
LEMMA PruneIsPart ==
    ASSUME slot \in Nat, NEW q \in Seq(Entries), NEW n, InOrder(q, n)
    PROVE  PartOf(PruneEventCache(q), q)
<1> DEFINE Keeps(i) == q[i].slot >= slot + 1 - CacheSlots + 1
           Body(f, i) == IF i = 0 THEN <<>>
                         ELSE IF Keeps(i) THEN Append(f[i - 1], q[i]) ELSE f[i - 1]
           \* f is the loop's course up to entry m.
           Course(f, m) == f \in [0 .. m -> Seq(Entries)] /\ \A i \in 0 .. m : f[i] = Body(f, i)
           Bad == {m \in 0 .. Len(q) : ~\E f : Course(f, m)}
<1>1. Len(q) \in Nat /\ \A i \in 1 .. Len(q) : q[i] \in Entries
  OBVIOUS
<1> HIDE DEF Course
<1>a. /\ \A m \in Bad : m \in 0 .. Len(q) /\ ~\E f : Course(f, m)
      /\ \A m \in 0 .. Len(q) : m \notin Bad => \E f : Course(f, m)
  OBVIOUS
<1> HIDE DEF Bad
<1>2. Bad = {}
  <2> SUFFICES ASSUME Bad # {} PROVE FALSE
    OBVIOUS
  <2>1. Bad \in SUBSET Nat
    BY <1>1, <1>a
  <2>2. PICK m \in Bad : \A x \in Bad : m <= x
    BY <2>1, LeastNatural
  <2>3. m \in Nat /\ m <= Len(q)
    BY <1>1, <1>a
  <2>4. CASE m = 0
    <3> DEFINE f == [i \in 0 .. 0 |-> <<>>]
    <3>1. Course(f, 0)
      <4>1. \A i \in 0 .. 0 : i = 0
        OBVIOUS
      <4> QED BY <4>1 DEF Course
    <3> QED BY <1>a, <2>4, <3>1
  <2>5. CASE m > 0
    <3>1. m - 1 \in 0 .. Len(q) /\ m - 1 \notin Bad
      <4>1. m - 1 \in 0 .. Len(q) /\ ~(m <= m - 1)
        BY <1>1, <2>3, <2>5
      <4> QED BY <2>2, <4>1
    <3>2. PICK f : Course(f, m - 1)
      BY <1>a, <3>1
    <3> DEFINE v == Body(f, m)
               g == [i \in 0 .. m |-> IF i = m THEN v ELSE f[i]]
    <3>3. v \in Seq(Entries)
      <4>1. m \in 1 .. Len(q) /\ q[m] \in Entries /\ f[m - 1] \in Seq(Entries)
        BY <1>1, <2>3, <2>5, <3>2 DEF Course
      <4>2. Append(f[m - 1], q[m]) \in Seq(Entries)
        BY <4>1, AppendProperties
      <4> QED BY <2>5, <4>1, <4>2
    <3> HIDE DEF Body
    <3>4. \A i \in 0 .. m : g[i] = IF i = m THEN v ELSE f[i]
      OBVIOUS
    <3>5. g \in [0 .. m -> Seq(Entries)]
      <4>1. \A i \in 0 .. m : i # m => i \in 0 .. m - 1
        BY <2>3
      <4> QED BY <3>2, <3>3, <4>1 DEF Course
    <3> HIDE DEF v, g
    <3>6. ASSUME NEW i \in 0 .. m PROVE g[i] = Body(g, i)
      <4>1. i = 0 \/ g[i - 1] = f[i - 1]
        <5>1. i # 0 => i - 1 \in 0 .. m /\ i - 1 # m
          BY <2>3
        <5> QED BY <3>4, <5>1
      <4>2. Body(g, i) = Body(f, i)
        BY <4>1 DEF Body
      <4>3. i # m => i \in 0 .. m - 1
        BY <2>3
      <4> QED BY <3>2, <3>4, <4>2, <4>3 DEF v, Course
    <3>7. Course(g, m)
      BY <3>5, <3>6 DEF Course
    <3> QED BY <1>a, <3>7
  <2> QED BY <2>3, <2>4, <2>5
<1>3. PICK f : Course(f, Len(q))
  <2>1. Len(q) \in 0 .. Len(q)
    BY <1>1
  <2> QED BY <1>2, <1>a, <2>1
<1> DEFINE F == CHOOSE h : h = [i \in 0 .. Len(q) |-> Body(h, i)]
<1>4. f = [i \in 0 .. Len(q) |-> Body(f, i)]
  BY <1>3 DEF Course
<1> HIDE DEF Body
<1>5. F = [i \in 0 .. Len(q) |-> Body(F, i)]
  BY <1>4
<1> HIDE DEF F
<1>6. \A i \in 0 .. Len(q) : F[i] = Body(F, i)
  BY <1>5
<1> DEFINE Fits(i) ==
             /\ F[i] \in Seq(Entries)
             /\ \A x \in 1 .. Len(F[i]) : \E k \in 1 .. i : F[i][x] = q[k]
             /\ \A x, y \in 1 .. Len(F[i]) : x < y => F[i][x].seq < F[i][y].seq
           Wrong == {i \in 0 .. Len(q) : ~Fits(i)}
<1>7. Wrong = {}
  <2> SUFFICES ASSUME Wrong # {} PROVE FALSE
    OBVIOUS
  <2>1. Wrong \in SUBSET Nat
    BY <1>1
  <2>2. PICK m \in Wrong : \A x \in Wrong : m <= x
    BY <2>1, LeastNatural
  <2>3. m \in Nat /\ m <= Len(q) /\ m \in 0 .. Len(q)
    BY <1>1
  <2>4. CASE m = 0
    <3>1. F[0] = <<>>
      BY <1>1, <1>6, <2>3, <2>4 DEF Body
    <3>2. Fits(0)
      <4>1. F[0] \in Seq(Entries) /\ Len(F[0]) = 0
        BY <3>1
      <4> QED BY <4>1
    <3> QED BY <2>4, <3>2
  <2>5. CASE m > 0
    <3>1. m - 1 \in 0 .. Len(q) /\ m - 1 \notin Wrong
      BY <1>1, <2>2, <2>3, <2>5
    <3>2. Fits(m - 1)
      BY <3>1
    <3>3. m \in 1 .. Len(q) /\ q[m] \in Entries
      BY <1>1, <2>3, <2>5
    <3>4. F[m] = IF Keeps(m) THEN Append(F[m - 1], q[m]) ELSE F[m - 1]
      BY <1>6, <2>3, <2>5 DEF Body
    <3>5. \A k \in 1 .. m - 1 : k \in 1 .. m /\ k \in 1 .. Len(q) /\ k < m
      BY <2>3
    <3> HIDE DEF Keeps
    <3>6. CASE ~Keeps(m)
      <4>1. F[m] = F[m - 1]
        BY <3>4, <3>6
      <4>2. Fits(m)
        BY <3>2, <3>5, <4>1
      <4> QED BY <4>2
    <3>7. CASE Keeps(m)
      <4> DEFINE a == F[m - 1]
                 b == F[m]
      <4>1. /\ b \in Seq(Entries) /\ Len(b) = Len(a) + 1 /\ Len(a) \in Nat
            /\ \A x \in 1 .. Len(a) : b[x] = a[x]
            /\ b[Len(a) + 1] = q[m]
        BY <3>2, <3>3, <3>4, <3>7, AppendProperties
      <4>2. /\ \A x \in 1 .. Len(a) : \E k \in 1 .. m - 1 : a[x] = q[k]
            /\ \A x, y \in 1 .. Len(a) : x < y => a[x].seq < a[y].seq
        BY <3>2
      <4> HIDE DEF a, b
      <4>3. \A x \in 1 .. Len(b) : x \in 1 .. Len(a) \/ x = Len(a) + 1
        BY <4>1
      <4>4. \A x \in 1 .. Len(b) : \E k \in 1 .. m : b[x] = q[k]
        <5> TAKE x \in 1 .. Len(b)
        <5>1. CASE x \in 1 .. Len(a)
          BY <3>5, <4>1, <4>2, <5>1
        <5>2. CASE x = Len(a) + 1
          <6>1. m \in 1 .. m
            BY <2>3, <2>5
          <6> QED BY <4>1, <5>2, <6>1
        <5> QED BY <4>3, <5>1, <5>2
      <4>5. ASSUME NEW x \in 1 .. Len(b), NEW y \in 1 .. Len(b), x < y PROVE b[x].seq < b[y].seq
        <5>1. x \in 1 .. Len(a)
          BY <4>1, <4>5
        <5>2. CASE y \in 1 .. Len(a)
          BY <4>1, <4>2, <4>5, <5>1, <5>2
        <5>3. CASE y = Len(a) + 1
          <6>1. PICK k \in 1 .. m - 1 : a[x] = q[k]
            BY <4>2, <5>1
          <6>2. q[k].seq < q[m].seq
            BY <3>3, <3>5 DEF InOrder
          <6> QED BY <4>1, <5>1, <5>3, <6>1, <6>2
        <5> QED BY <4>3, <5>2, <5>3
      <4>6. Fits(m)
        BY <4>1, <4>4, <4>5 DEF b
      <4> QED BY <4>6
    <3> QED BY <3>6, <3>7
  <2> QED BY <2>3, <2>4, <2>5
<1>8. Fits(Len(q))
  BY <1>1, <1>7
<1>9. PruneEventCache(q) = IF slot + 1 < CacheSlots THEN q ELSE F[Len(q)]
  BY DEF PruneEventCache, F, Body, Keeps
<1>10. PartOf(q, q)
  BY DEF PartOf, InOrder
<1> QED BY <1>8, <1>9, <1>10 DEF PartOf

\* What deliverLocked does to one channel: r of the events are appended.
Gets(c, types, r) ==
    /\ r \in 0 .. Len(types)
    /\ Len(conn'[c].ch) = Len(conn[c].ch) + r
    /\ \A j \in 1 .. Len(conn[c].ch) : conn'[c].ch[j] = conn[c].ch[j]
    /\ \A i \in 1 .. r : conn'[c].ch[Len(conn[c].ch) + i] = [seq |-> seq + i, type |-> types[i]]

\* The browser gets what there is room for, and the rest is put down as not sent.
LEMMA Delivers ==
    ASSUME StreamInv, NEW types \in Seq(Types), DeliverLocked(types)
    PROVE  /\ seq' = seq + Len(types) /\ conn' \in [Conns -> Requests]
           /\ DOMAIN view' = DOMAIN view /\ view'.last = view.last /\ view'.config = view.config
           /\ view.settled \subseteq view'.settled /\ view'.stale \in BOOLEAN /\ (view.stale => view'.stale)
           /\ \A c \in Conns : /\ conn'[c].pc = conn[c].pc /\ conn'[c].live = conn[c].live
                               /\ conn'[c].todo = conn[c].todo
           /\ \A c \in Conns : conn[c].live => \E r \in Nat :
                /\ Gets(c, types, r)
                /\ \A i \in 1 .. Len(types) : i > r =>
                     /\ types[i] = "slot" => seq + i \in view'.settled
                     /\ types[i] = "config" => view'.stale
<1> DEFINE stamped == [i \in DOMAIN types |-> Event(seq + i, types[i])]
           room(c) == Min({conn[c].cap - Len(conn[c].ch), Len(types)})
           late(type) == {j \in DOMAIN types :
                            types[j] = type /\ \E c \in Registered : conn[c].live /\ j > room(c)}
           skipped(type) == {seq + i : i \in late(type)}
<1>0. StreamTypeOK /\ OneBrowser /\ seq \in Nat /\ conn \in [Conns -> Requests] /\ Len(types) \in Nat
  BY DEF StreamInv, StreamTypeOK
<1>1. /\ seq' = seq + Len(types)
      /\ conn' = [c \in Conns |->
                    IF c \in Registered
                    THEN [conn[c] EXCEPT !.ch = @ \o Sent(c, SubSeq(stamped, 1, room(c)))] ELSE conn[c]]
      /\ view' = [view EXCEPT !.settled = @ \cup skipped("slot"),
                              !.stale = @ \/ skipped("config") # {}]
  BY DEF DeliverLocked
<1>2. /\ DOMAIN stamped = 1 .. Len(types)
      /\ \A i \in 1 .. Len(types) : stamped[i] = [seq |-> seq + i, type |-> types[i]] /\ stamped[i] \in Events
  <2>1. DOMAIN types = 1 .. Len(types) /\ \A i \in 1 .. Len(types) : types[i] \in Types
    OBVIOUS
  <2>2. \A i \in 1 .. Len(types) : seq + i \in Nat
    BY <1>0
  <2> QED BY <2>1, <2>2 DEF Event, Events
<1>3. ASSUME NEW c \in Conns
      PROVE  /\ conn[c] \in Requests /\ conn[c].ch \in Seq(Events)
             /\ room(c) \in Int /\ room(c) <= Len(types)
  <2>1. conn[c] \in Requests
    BY <1>0
  <2>2. conn[c].ch \in Seq(Events) /\ conn[c].cap \in Nat
    BY <2>1 DEF Requests
  <2>3. conn[c].cap - Len(conn[c].ch) \in Int
    BY <2>2
  <2> QED BY <1>0, <2>1, <2>2, <2>3, MinOfTwo
<1> HIDE DEF stamped
<1>4. ASSUME NEW c \in Conns
      PROVE  LET part == SubSeq(stamped, 1, room(c)) IN
             /\ part \in Seq(Events) /\ Len(part) \in 0 .. Len(types)
             /\ room(c) <= Len(part)
             /\ \A i \in 1 .. Len(part) : part[i] = [seq |-> seq + i, type |-> types[i]]
  <2> DEFINE r == room(c)
             part == SubSeq(stamped, 1, r)
  <2>1. r \in Int /\ r <= Len(types)
    BY <1>3
  <2> HIDE DEF r
  <2>2. \A i \in 1 .. r : i \in 1 .. Len(types) /\ stamped[i] \in Events
    BY <1>0, <1>2, <2>1
  <2>3. /\ part \in Seq(Events) /\ Len(part) = IF 1 <= r THEN r - 1 + 1 ELSE 0
        /\ \A i \in 1 .. r - 1 + 1 : part[i] = stamped[1 + i - 1]
    BY <2>1, <2>2, SubSeqProperties
  <2> HIDE DEF part
  <2>4. Len(part) \in 0 .. Len(types) /\ r <= Len(part)
    BY <1>0, <2>1, <2>3
  <2>5. ASSUME NEW i \in 1 .. Len(part) PROVE part[i] = [seq |-> seq + i, type |-> types[i]]
    <3>1. i \in 1 .. r - 1 + 1 /\ 1 + i - 1 = i /\ i \in 1 .. Len(types)
      BY <1>0, <2>1, <2>3
    <3> QED BY <1>2, <2>3, <3>1
  <2> QED BY <2>3, <2>4, <2>5 DEF part, r
<1> HIDE DEF room
<1>5. ASSUME NEW c \in Conns
      PROVE  LET sent == Sent(c, SubSeq(stamped, 1, room(c))) IN
             /\ sent \in Seq(Events)
             /\ conn[c].live => sent = SubSeq(stamped, 1, room(c))
  <2> DEFINE part == SubSeq(stamped, 1, room(c))
  <2>1. part \in Seq(Events)
    BY <1>4
  <2> HIDE DEF part
  <2>2. [i \in DOMAIN part |-> Event(0, "other")] \in Seq(Events)
    <3>1. DOMAIN part = 1 .. Len(part) /\ Len(part) \in Nat /\ Event(0, "other") \in Events
      BY <2>1 DEF Event, Events, Types
    <3> QED BY <3>1
  <2>3. Sent(c, part) \in Seq(Events) /\ (conn[c].live => Sent(c, part) = part)
    BY <2>1, <2>2 DEF Sent
  <2> QED BY <2>3 DEF part
<1>6. ASSUME NEW c \in Conns
      PROVE  /\ conn'[c] \in Requests
             /\ conn'[c].pc = conn[c].pc /\ conn'[c].live = conn[c].live /\ conn'[c].todo = conn[c].todo
             /\ conn[c].live => conn'[c].ch = conn[c].ch \o SubSeq(stamped, 1, room(c))
  <2> DEFINE sent == Sent(c, SubSeq(stamped, 1, room(c)))
  <2>1. sent \in Seq(Events) /\ (conn[c].live => sent = SubSeq(stamped, 1, room(c)))
    BY <1>5
  <2>2. conn'[c] = IF c \in Registered THEN [conn[c] EXCEPT !.ch = @ \o sent] ELSE conn[c]
    BY <1>1
  <2> HIDE DEF sent
  <2>3. conn[c].ch \o sent \in Seq(Events)
    BY <1>3, <2>1
  <2>4. conn[c].live => c \in Registered
    BY <1>0 DEF OneBrowser, Registered
  <2>5. conn[c] \in Requests
    BY <1>3
  <2> QED BY <2>1, <2>2, <2>3, <2>4, <2>5 DEF Requests
<1>7. conn' \in [Conns -> Requests]
  <2>1. conn' = [c \in Conns |-> conn'[c]]
    BY <1>1
  <2> QED BY <1>6, <2>1
<1>8. /\ DOMAIN view' = DOMAIN view /\ view'.last = view.last /\ view'.config = view.config
      /\ view'.settled = view.settled \cup skipped("slot")
      /\ view'.stale = (view.stale \/ skipped("config") # {})
  <2>1. DOMAIN view = {"last", "settled", "config", "stale"}
    BY <1>0 DEF StreamTypeOK
  <2> HIDE DEF skipped
  <2> QED BY <1>1, <2>1
<1>9. ASSUME NEW c \in Conns, conn[c].live
      PROVE  \E r \in Nat :
                /\ Gets(c, types, r)
                /\ \A i \in 1 .. Len(types) : i > r =>
                     /\ types[i] = "slot" => seq + i \in view'.settled
                     /\ types[i] = "config" => view'.stale
  <2> DEFINE part == SubSeq(stamped, 1, room(c))
  <2>1. /\ part \in Seq(Events) /\ Len(part) \in 0 .. Len(types) /\ room(c) <= Len(part)
        /\ \A i \in 1 .. Len(part) : part[i] = [seq |-> seq + i, type |-> types[i]]
    BY <1>4
  <2>2. conn'[c].ch = conn[c].ch \o part /\ conn[c].ch \in Seq(Events)
    BY <1>3, <1>6, <1>9
  <2> HIDE DEF part
  <2>3. PICK r \in Nat : r = Len(part)
    BY <2>1
  <2>4. /\ Len(conn'[c].ch) = Len(conn[c].ch) + r
        /\ \A i \in 1 .. Len(conn[c].ch) + r : conn'[c].ch[i] =
              IF i <= Len(conn[c].ch) THEN conn[c].ch[i] ELSE part[i - Len(conn[c].ch)]
    BY <2>1, <2>2, <2>3, ConcatProperties
  <2>5. Gets(c, types, r)
    <3>1. PICK n \in Nat : n = Len(conn[c].ch)
      BY <2>2
    <3>2. \A j \in 1 .. n : j \in 1 .. n + r /\ j <= n
      OBVIOUS
    <3>3. \A i \in 1 .. r : n + i \in 1 .. n + r /\ ~(n + i <= n) /\ (n + i) - n = i
      OBVIOUS
    <3>4. \A j \in 1 .. n : conn'[c].ch[j] = conn[c].ch[j]
      BY <2>4, <3>1, <3>2
    <3>5. \A i \in 1 .. r : conn'[c].ch[n + i] = part[i]
      BY <2>4, <3>1, <3>3
    <3>6. \A i \in 1 .. r : conn'[c].ch[n + i] = [seq |-> seq + i, type |-> types[i]]
      BY <2>1, <2>3, <3>5
    <3>7. r \in 0 .. Len(types) /\ Len(conn'[c].ch) = n + r
      BY <2>1, <2>3, <2>4, <3>1
    <3> QED BY <3>1, <3>4, <3>6, <3>7, Zenon DEF Gets
  <2>6. ASSUME NEW i \in 1 .. Len(types), i > r
        PROVE  /\ types[i] = "slot" => seq + i \in view'.settled
               /\ types[i] = "config" => view'.stale
    <3>1. i > room(c)
      BY <1>3, <2>1, <2>3, <2>6
    <3>2. c \in Registered /\ i \in DOMAIN types
      BY <1>0, <1>9 DEF OneBrowser, Registered
    <3>3. i \in late(types[i])
      BY <1>9, <3>1, <3>2
    <3>4. seq + i \in skipped(types[i])
      BY <3>3
    <3> QED BY <1>8, <3>4
  <2> QED BY <2>5, <2>6
<1>10. view'.stale \in BOOLEAN /\ (view.stale => view'.stale) /\ view.settled \subseteq view'.settled
  BY <1>8
<1> QED BY <1>1, <1>6, <1>7, <1>8, <1>9, <1>10

\* Events that are delivered, and cached if they are of a slot, keep the stream's invariant.
LEMMA AnnounceKeeps ==
    ASSUME StreamInv, NEW types \in Seq(Types), DeliverLocked(types), slot' \in Nat,
           cache' \in Seq(Entries), InOrder(cache', seq'),
           \A i \in 1 .. Len(cache') :
              \/ \E k \in 1 .. Len(cache) : cache'[i].seq = cache[k].seq
              \/ \E k \in 1 .. Len(types) : types[k] = "slot" /\ cache'[i].seq = seq + k
    PROVE  StreamInv'
<1>0. /\ StreamTypeOK /\ OneBrowser /\ DropsApplied /\ InOrder(cache, seq)
      /\ seq \in Nat /\ view.last \in Nat /\ view.last <= seq /\ Len(types) \in Nat
      /\ conn \in [Conns -> Requests] /\ cache \in Seq(Entries)
  BY DEF StreamInv, StreamTypeOK
<1>1. /\ seq' = seq + Len(types) /\ conn' \in [Conns -> Requests]
      /\ DOMAIN view' = DOMAIN view /\ view'.last = view.last
      /\ view.settled \subseteq view'.settled /\ view'.stale \in BOOLEAN
      /\ \A c \in Conns : conn'[c].pc = conn[c].pc /\ conn'[c].live = conn[c].live
  BY Delivers
<1>2. StreamTypeOK'
  <2>1. seq' \in Nat
    BY <1>0, <1>1
  <2> QED BY <1>0, <1>1, <2>1 DEF StreamTypeOK
<1>3. OneBrowser'
  BY <1>0, <1>1 DEF OneBrowser
<1>4. view'.last <= seq'
  BY <1>0, <1>1
<1>5. \A k \in 1 .. Len(cache) : cache[k].seq \in Nat /\ cache[k].seq <= seq
  <2>1. \A k \in 1 .. Len(cache) : cache[k] \in Entries
    BY <1>0
  <2>2. \A k \in 1 .. Len(cache) : cache[k].seq \in Nat
    BY <2>1 DEF Entries
  <2>3. \A k \in 1 .. Len(cache) : cache[k].seq <= seq
    BY <1>0 DEF InOrder
  <2> QED BY <2>2, <2>3
<1>6. DropsApplied'
  <2> SUFFICES ASSUME NEW i \in 1 .. Len(cache'), cache'[i].seq <= view'.last
               PROVE  cache'[i].seq \in view'.settled
    BY DEF DropsApplied
  <2>1. ASSUME NEW k \in 1 .. Len(types), cache'[i].seq = seq + k PROVE FALSE
    BY <1>0, <1>1, <2>1
  <2>2. PICK k \in 1 .. Len(cache) : cache'[i].seq = cache[k].seq
    BY <2>1
  <2> QED BY <1>0, <1>1, <2>2 DEF DropsApplied
<1>7. ASSUME NEW c \in Conns, conn'[c].live
      PROVE  /\ ChannelInOrder(conn'[c].ch, view'.last, seq', cache')
             /\ Reaches(cache', conn'[c].ch, view'.settled)
  <2>1. /\ ChannelInOrder(conn[c].ch, view.last, seq, cache)
        /\ Reaches(cache, conn[c].ch, view.settled) /\ conn[c].live
    BY <1>1, <1>7 DEF StreamInv
  <2>2. PICK r \in Nat :
          /\ Gets(c, types, r)
          /\ \A i \in 1 .. Len(types) : i > r => (types[i] = "slot" => seq + i \in view'.settled)
    BY <2>1, Delivers
  <2>3. PICK n \in Nat : n = Len(conn[c].ch)
    <3>1. conn[c].ch \in Seq(Events)
      BY <1>0 DEF Requests
    <3> QED BY <3>1
  <2>4. \A j \in 1 .. n : conn[c].ch[j].seq \in Nat
    <3>1. conn[c].ch \in Seq(Events)
      BY <1>0 DEF Requests
    <3>2. \A j \in 1 .. n : conn[c].ch[j] \in Events
      BY <2>3, <3>1
    <3> QED BY <3>2 DEF Events
  <2> DEFINE old == conn[c].ch
  <2>5. PICK new : new = conn'[c].ch
    OBVIOUS
  <2>6. /\ Len(new) = n + r /\ r <= Len(types)
        /\ \A j \in 1 .. n : new[j] = old[j]
        /\ \A i \in 1 .. r : new[n + i] = [seq |-> seq + i, type |-> types[i]]
    BY <1>0, <2>2, <2>3, <2>5 DEF Gets
  <2>7. /\ \A i, j \in 1 .. n : i < j /\ old[j].seq > 0 => old[i].seq < old[j].seq
        /\ \A j \in 1 .. n : old[j].seq <= seq
        /\ \A j \in 1 .. n : old[j].type = "config" /\ old[j].seq > 0 => view.last < old[j].seq
        /\ \A j \in 1 .. n, i \in 1 .. Len(cache) : old[j].seq = cache[i].seq => old[j].type = "slot"
    BY <2>1, <2>3 DEF ChannelInOrder
  <2> HIDE DEF old
  <2>8. ASSUME NEW j \in 1 .. n + r
        PROVE  \/ j \in 1 .. n /\ new[j] = old[j] /\ new[j].seq \in Nat /\ new[j].seq <= seq
               \/ \E i \in 1 .. r : j = n + i /\ new[j].seq = seq + i /\ new[j].type = types[i]
    <3>1. CASE j <= n
      <4>1. j \in 1 .. n
        BY <3>1
      <4>2. new[j] = old[j] /\ old[j].seq \in Nat /\ old[j].seq <= seq
        BY <2>4, <2>6, <2>7, <4>1 DEF old
      <4> QED BY <4>1, <4>2
    <3>2. CASE j > n
      <4>1. PICK i \in 1 .. r : j = n + i
        <5>1. j - n \in 1 .. r /\ j = n + (j - n)
          BY <3>2
        <5> QED BY <5>1
      <4>2. new[j] = [seq |-> seq + i, type |-> types[i]]
        BY <2>6, <4>1
      <4> QED BY <4>1, <4>2
    <3> QED BY <3>1, <3>2
  <2>9. \A i, j \in 1 .. n + r : i < j /\ new[j].seq > 0 => new[i].seq < new[j].seq
    <3> SUFFICES ASSUME NEW i \in 1 .. n + r, NEW j \in 1 .. n + r, i < j, new[j].seq > 0
                 PROVE  new[i].seq < new[j].seq
      OBVIOUS
    <3>1. CASE j \in 1 .. n
      <4>1. i \in 1 .. n
        BY <3>1
      <4> QED BY <2>6, <2>7, <3>1, <4>1
    <3>2. CASE j \notin 1 .. n
      <4>1. PICK k \in 1 .. r : j = n + k /\ new[j].seq = seq + k
        BY <2>8, <3>2
      <4>2. CASE i \in 1 .. n
        <5>1. new[i].seq \in Nat /\ new[i].seq <= seq
          BY <2>4, <2>6, <2>7, <4>2 DEF old
        <5> QED BY <1>0, <4>1, <5>1
      <4>3. CASE i \notin 1 .. n
        <5>1. PICK l \in 1 .. r : i = n + l /\ new[i].seq = seq + l
          BY <2>8, <4>3
        <5> QED BY <1>0, <4>1, <5>1
      <4> QED BY <4>2, <4>3
    <3> QED BY <3>1, <3>2
  <2>10. \A j \in 1 .. n + r : new[j].seq <= seq'
    BY <1>0, <1>1, <2>6, <2>8
  <2>11. \A j \in 1 .. n + r : new[j].type = "config" /\ new[j].seq > 0 => view'.last < new[j].seq
    <3> TAKE j \in 1 .. n + r
    <3>1. CASE j \in 1 .. n
      BY <1>1, <2>6, <2>7, <3>1
    <3>2. CASE j \notin 1 .. n
      <4>1. PICK k \in 1 .. r : new[j].seq = seq + k
        BY <2>8, <3>2
      <4> QED BY <1>0, <1>1, <4>1
    <3> QED BY <3>1, <3>2
  <2>12. ASSUME NEW j \in 1 .. n + r, NEW i \in 1 .. Len(cache'), new[j].seq = cache'[i].seq
         PROVE  new[j].type = "slot"
    <3>1. CASE j \in 1 .. n
      <4>1. new[j] = old[j] /\ new[j].seq \in Nat /\ new[j].seq <= seq
        BY <2>4, <2>6, <2>7, <3>1 DEF old
      <4>2. ASSUME NEW k \in 1 .. Len(types), cache'[i].seq = seq + k PROVE FALSE
        BY <1>0, <2>12, <4>1, <4>2
      <4>3. PICK k \in 1 .. Len(cache) : cache'[i].seq = cache[k].seq
        BY <4>2
      <4> QED BY <2>7, <2>12, <3>1, <4>1, <4>3
    <3>2. CASE j \notin 1 .. n
      <4>1. PICK l \in 1 .. r : new[j].seq = seq + l /\ new[j].type = types[l]
        BY <2>8, <3>2
      <4>2. ASSUME NEW k \in 1 .. Len(cache), cache'[i].seq = cache[k].seq PROVE FALSE
        <5>0. l \in Nat /\ l > 0
          OBVIOUS
        <5>1. seq + l = cache[k].seq
          BY <2>12, <4>1, <4>2, Zenon
        <5>2. cache[k].seq \in Nat /\ cache[k].seq <= seq
          BY <1>5
        <5> QED BY <1>0, <5>0, <5>1, <5>2
      <4>3. PICK k \in 1 .. Len(types) : types[k] = "slot" /\ cache'[i].seq = seq + k
        BY <4>2
      <4>4. k = l
        <5>0. l \in Nat /\ k \in Nat
          BY <1>0
        <5>1. seq + l = seq + k
          BY <2>12, <4>1, <4>3, Zenon
        <5> QED BY <1>0, <5>0, <5>1
      <4> QED BY <4>1, <4>3, <4>4
    <3> QED BY <3>1, <3>2
  <2>13. ASSUME NEW i \in 1 .. Len(cache')
         PROVE  cache'[i].seq \in view'.settled \/ \E j \in 1 .. n + r : new[j].seq = cache'[i].seq
    <3>1. CASE \E k \in 1 .. Len(cache) : cache'[i].seq = cache[k].seq
      <4>1. PICK k \in 1 .. Len(cache) : cache'[i].seq = cache[k].seq
        BY <3>1
      <4>2. cache[k].seq \in view.settled \/ \E j \in 1 .. n : old[j].seq = cache[k].seq
        BY <2>1, <2>3 DEF Reaches, old
      <4>3. \A j \in 1 .. n : j \in 1 .. n + r
        OBVIOUS
      <4> QED BY <1>1, <2>6, <4>1, <4>2, <4>3
    <3>2. CASE \E k \in 1 .. Len(types) : types[k] = "slot" /\ cache'[i].seq = seq + k
      <4>1. PICK k \in 1 .. Len(types) : types[k] = "slot" /\ cache'[i].seq = seq + k
        BY <3>2
      <4>2. CASE k > r
        BY <2>2, <4>1, <4>2
      <4>3. CASE k <= r
        <5>1. k \in 1 .. r /\ n + k \in 1 .. n + r
          BY <1>0, <4>3
        <5>2. new[n + k] = [seq |-> seq + k, type |-> types[k]]
          BY <2>6, <5>1
        <5>3. new[n + k].seq = seq + k
          BY <5>2
        <5> QED BY <4>1, <5>1, <5>3
      <4> QED BY <1>0, <4>2, <4>3
    <3> QED BY <3>1, <3>2
  <2>14. ChannelInOrder(new, view'.last, seq', cache')
    BY <2>6, <2>9, <2>10, <2>11, <2>12, Zenon DEF ChannelInOrder
  <2>15. Reaches(cache', new, view'.settled)
    BY <2>6, <2>13, Zenon DEF Reaches
  <2> QED BY <2>5, <2>14, <2>15
<1> QED BY <1>2, <1>3, <1>4, <1>6, <1>7 DEF StreamInv

-----------------------------------------------------------------------------
(* The loop keeps the stream's invariant, and only delivers.               *)

Delivered == StreamInv' /\ \E types \in Seq(Types) : DeliverLocked(types)

LEMMA BroadcastForSlotInv ==
    ASSUME StreamInv, NEW s \in Nat, NEW n \in Nat, NEW rest \in {<<>>, <<"other">>},
           BroadcastForSlot(s, n, rest)
    PROVE  Delivered
<1> DEFINE events == [i \in 1 .. n |-> "slot"]
           types == events \o rest
<1>1. events \in Seq(Types) /\ Len(events) = n /\ rest \in Seq(Types) /\ Len(rest) \in Nat
  <2>1. "slot" \in Types /\ "other" \in Types
    BY DEF Types
  <2>2. events \in Seq(Types) /\ Len(events) = n
    BY <2>1
  <2>3. <<>> \in Seq(Types) /\ <<"other">> \in Seq(Types)
    BY <2>1
  <2>4. rest \in Seq(Types)
    BY <2>3
  <2> QED BY <2>2, <2>4
<1>2. \A i \in 1 .. n : events[i] = "slot"
  OBVIOUS
<1> HIDE DEF events
<1>3. /\ types \in Seq(Types) /\ Len(types) = n + Len(rest)
      /\ \A i \in 1 .. n : i \in 1 .. Len(types) /\ types[i] = "slot"
  <2>1. /\ types \in Seq(Types) /\ Len(types) = n + Len(rest)
        /\ \A i \in 1 .. n + Len(rest) : types[i] = IF i <= n THEN events[i] ELSE rest[i - n]
    BY <1>1, ConcatProperties
  <2> HIDE DEF types
  <2>2. \A i \in 1 .. n : i \in 1 .. n + Len(rest) /\ i <= n
    BY <1>1
  <2> QED BY <1>2, <2>1, <2>2
<1>4. DeliverLocked(types) /\ cache' = Cached(s, n) /\ slot' = slot
  BY DEF BroadcastForSlot, events
<1> HIDE DEF types
<1>5. seq' = seq + Len(types) /\ seq \in Nat /\ slot \in Nat
  BY <1>3, <1>4, Delivers DEF StreamInv, StreamTypeOK
<1>6. /\ cache' \in Seq(Entries) /\ InOrder(cache', seq + n)
      /\ \A i \in 1 .. Len(cache') :
           \/ \E k \in 1 .. Len(cache) : cache'[i].seq = cache[k].seq
           \/ \E k \in 1 .. n : cache'[i].seq = seq + k
  BY <1>4, CachedIsPart
<1>7. InOrder(cache', seq')
  <2>1. \A i \in 1 .. Len(cache') : cache'[i] \in Entries
    BY <1>6
  <2>2. \A i \in 1 .. Len(cache') : cache'[i].seq \in Nat
    BY <2>1 DEF Entries
  <2>3. seq + n <= seq' /\ seq + n \in Nat /\ seq' \in Nat
    BY <1>1, <1>3, <1>5
  <2>4. \A i \in 1 .. Len(cache') : cache'[i].seq <= seq + n
    BY <1>6 DEF InOrder
  <2>5. \A i \in 1 .. Len(cache') : cache'[i].seq <= seq'
    BY <2>2, <2>3, <2>4
  <2> QED BY <1>6, <2>5 DEF InOrder
<1>8. \A i \in 1 .. Len(cache') :
           \/ \E k \in 1 .. Len(cache) : cache'[i].seq = cache[k].seq
           \/ \E k \in 1 .. Len(types) : types[k] = "slot" /\ cache'[i].seq = seq + k
  BY <1>3, <1>6
<1>9. StreamInv'
  BY <1>3, <1>4, <1>5, <1>6, <1>7, <1>8, AnnounceKeeps
<1> QED BY <1>3, <1>4, <1>9 DEF Delivered

\* An event that is not cached.
LEMMA BroadcastInv ==
    ASSUME StreamInv, NEW type \in Types, Broadcast(type)
    PROVE  Delivered
<1>1. <<type>> \in Seq(Types) /\ DeliverLocked(<<type>>) /\ cache' = cache /\ slot' = slot
  BY DEF Broadcast
<1>2. seq' = seq + Len(<<type>>)
  BY <1>1, Delivers
<1>3. seq' = seq + 1 /\ seq \in Nat /\ slot \in Nat /\ cache \in Seq(Entries) /\ InOrder(cache, seq)
  BY <1>2 DEF StreamInv, StreamTypeOK
<1>4. InOrder(cache', seq')
  <2>1. \A i \in 1 .. Len(cache) : cache[i] \in Entries
    BY <1>3
  <2>2. \A i \in 1 .. Len(cache) : cache[i].seq \in Nat /\ cache[i].seq <= seq
    BY <1>3, <2>1 DEF Entries, InOrder
  <2>3. \A i \in 1 .. Len(cache) : cache[i].seq <= seq'
    BY <1>3, <2>2
  <2> QED BY <1>1, <1>3, <2>3 DEF InOrder
<1>5. StreamInv'
  BY <1>1, <1>3, <1>4, AnnounceKeeps
<1> QED BY <1>1, <1>5 DEF Delivered

\* A slot starts, and old entries are pruned.
LEMMA SlotStartInv ==
    ASSUME StreamInv, HandleSlotStart
    PROVE  Delivered
<1> DEFINE q == Cached(slot + 1, 1)
<1>1. <<"slot">> \in Seq(Types) /\ DeliverLocked(<<"slot">>) /\ Len(<<"slot">>) = 1 /\ <<"slot">>[1] = "slot"
  BY DEF HandleSlotStart, Types
<1>2. slot \in Nat /\ seq \in Nat /\ slot' = slot + 1 /\ cache' = PruneEventCache(q)
  BY DEF HandleSlotStart, StreamInv, StreamTypeOK
<1>3. seq' = seq + 1
  BY <1>1, Delivers
<1>4. slot + 1 \in Nat /\ 1 \in Nat
  BY <1>2
<1>5. /\ q \in Seq(Entries) /\ InOrder(q, seq + 1)
      /\ \A i \in 1 .. Len(q) : \/ \E k \in 1 .. Len(cache) : q[i].seq = cache[k].seq
                                \/ \E k \in 1 .. 1 : q[i].seq = seq + k
  BY <1>4, CachedIsPart, Zenon
<1> HIDE DEF q
<1>6. PartOf(cache', q)
  BY <1>2, <1>5, PruneIsPart
<1>7. InOrder(cache', seq')
  BY <1>3, <1>5, <1>6 DEF PartOf, InOrder
<1>8. ASSUME NEW i \in 1 .. Len(cache')
      PROVE  \/ \E k \in 1 .. Len(cache) : cache'[i].seq = cache[k].seq
             \/ \E k \in 1 .. Len(<<"slot">>) : <<"slot">>[k] = "slot" /\ cache'[i].seq = seq + k
  <2>1. PICK m \in 1 .. Len(q) : cache'[i] = q[m]
    BY <1>6 DEF PartOf
  <2>2. CASE \E k \in 1 .. Len(cache) : q[m].seq = cache[k].seq
    BY <2>1, <2>2
  <2>3. CASE \E k \in 1 .. 1 : q[m].seq = seq + k
    <3>1. \A k \in 1 .. 1 : k \in 1 .. Len(<<"slot">>) /\ <<"slot">>[k] = "slot"
      OBVIOUS
    <3> QED BY <2>1, <2>3, <3>1
  <2> QED BY <1>5, <2>2, <2>3
<1>9. cache' \in Seq(Entries) /\ slot' \in Nat
  BY <1>2, <1>4, <1>6 DEF PartOf
<1>10. StreamInv'
  BY <1>1, <1>7, <1>8, <1>9, AnnounceKeeps
<1> QED BY <1>1, <1>10 DEF Delivered

\* The registration state changed: the second of two events is cached.
LEMMA StatusInv ==
    ASSUME StreamInv, SendServiceStatus
    PROVE  Delivered
<1>1. CASE Broadcast("other")
  BY <1>1, BroadcastInv DEF Types
<1>2. CASE DeliverLocked(<<"other", "slot">>) /\ UNCHANGED <<slot, seen>>
           /\ cache' = Newest(Append(cache, [seq |-> seq + 2, slot |-> slot]))
  <2> DEFINE types == <<"other", "slot">>
             e == [seq |-> seq + 2, slot |-> slot]
             q == Append(cache, e)
  <2>1. types \in Seq(Types) /\ Len(types) = 2 /\ types[2] = "slot" /\ 2 \in 1 .. Len(types)
    BY DEF Types
  <2>2. DeliverLocked(types) /\ slot' = slot /\ cache' = Newest(q)
    BY <1>2
  <2> HIDE DEF types
  <2>3. /\ seq' = seq + 2 /\ seq \in Nat /\ slot \in Nat /\ cache \in Seq(Entries) /\ InOrder(cache, seq)
    BY <2>1, <2>2, Delivers DEF StreamInv, StreamTypeOK
  <2>4. e \in Entries /\ e.seq = seq + 2
    BY <2>3 DEF Entries
  <2> HIDE DEF e
  <2>5. /\ q \in Seq(Entries) /\ Len(q) = Len(cache) + 1 /\ Len(cache) \in Nat
        /\ \A i \in 1 .. Len(cache) : q[i] = cache[i]
        /\ q[Len(cache) + 1] = e
    BY <2>3, <2>4, AppendProperties
  <2> HIDE DEF q
  <2>6. ASSUME NEW i \in 1 .. Len(q)
        PROVE  /\ \/ i \in 1 .. Len(cache) /\ q[i] = cache[i]
                  \/ i = Len(cache) + 1 /\ q[i].seq = seq + 2
               /\ q[i].seq \in Nat /\ q[i].seq <= seq + 2
               /\ i # Len(cache) + 1 => q[i].seq <= seq
    <3>1. i \in 1 .. Len(cache) \/ i = Len(cache) + 1
      BY <2>5
    <3>2. CASE i \in 1 .. Len(cache)
      <4>1. cache[i] \in Entries /\ q[i] = cache[i]
        BY <2>3, <2>5, <3>2
      <4>2. q[i].seq \in Nat /\ q[i].seq <= seq
        BY <2>3, <3>2, <4>1 DEF Entries, InOrder
      <4> QED BY <2>3, <3>2, <4>1, <4>2
    <3>3. CASE i = Len(cache) + 1
      BY <2>3, <2>4, <2>5, <3>3
    <3> QED BY <3>1, <3>2, <3>3
  <2>7. InOrder(q, seq')
    <3>1. ASSUME NEW i \in 1 .. Len(q), NEW j \in 1 .. Len(q), i < j PROVE q[i].seq < q[j].seq
      <4>1. i \in 1 .. Len(cache) /\ i # Len(cache) + 1
        BY <2>5, <3>1
      <4>2. CASE j \in 1 .. Len(cache)
        BY <2>3, <2>5, <3>1, <4>1, <4>2 DEF InOrder
      <4>3. CASE j = Len(cache) + 1
        <5>1. q[i].seq \in Nat /\ q[i].seq <= seq /\ q[j].seq = seq + 2
          BY <2>4, <2>5, <2>6, <4>1, <4>3
        <5> QED BY <2>3, <5>1
      <4> QED BY <2>6, <4>2, <4>3
    <3> QED BY <2>3, <2>6, <3>1 DEF InOrder
  <2>8. PartOf(cache', q)
    BY <2>2, <2>5, <2>7, NewestIsPart
  <2>9. InOrder(cache', seq')
    BY <2>7, <2>8 DEF PartOf, InOrder
  <2>10. ASSUME NEW i \in 1 .. Len(cache')
         PROVE  \/ \E k \in 1 .. Len(cache) : cache'[i].seq = cache[k].seq
                \/ \E k \in 1 .. Len(types) : types[k] = "slot" /\ cache'[i].seq = seq + k
    <3>1. PICK m \in 1 .. Len(q) : cache'[i] = q[m]
      BY <2>8 DEF PartOf
    <3> QED BY <2>1, <2>6, <3>1
  <2>11. cache' \in Seq(Entries) /\ slot' \in Nat
    BY <2>2, <2>3, <2>8 DEF PartOf
  <2>12. StreamInv'
    BY <2>1, <2>2, <2>9, <2>10, <2>11, AnnounceKeeps
  <2> QED BY <2>1, <2>2, <2>12 DEF Delivered
<1> QED BY <1>1, <1>2 DEF SendServiceStatus

LEMMA LoopInv ==
    ASSUME StreamInv, LoopStep
    PROVE  Delivered
<1>0. slot \in Nat /\ 1 \in Nat /\ 2 \in Nat
  BY DEF StreamInv, StreamTypeOK
<1>1. ASSUME NEW s \in Nat, Announce(s) PROVE Delivered
  BY <1>0, <1>1, BroadcastForSlotInv DEF Announce
<1>2. ASSUME NEW s \in Nat, NEW known \in BOOLEAN, BroadcastForSlot(s, 1, BroadcastSlotState(known))
      PROVE  Delivered
  <2>1. BroadcastSlotState(known) \in {<<>>, <<"other">>}
    BY DEF BroadcastSlotState
  <2> QED BY <1>0, <1>2, <2>1, BroadcastForSlotInv
<1>3. CASE HandleSlotStart
  BY <1>3, SlotStartInv
<1>4. CASE SendStats \/ SendBuilderInfo
  BY <1>4, BroadcastInv DEF SendStats, SendBuilderInfo, Types
<1>5. CASE SendServiceStatus
  BY <1>5, StatusInv
<1>6. CASE BroadcastLifecycle
  BY <1>0, <1>1, <1>6 DEF BroadcastLifecycle
<1>7. ASSUME NEW s \in Nat,
             \/ HandlePayloadBuild(s) \/ HandlePayloadAvailable(s) \/ HandleBlockDetail(s)
             \/ HandleHeadVoteUpdate(s) \/ BroadcastRevealStarted(s) \/ BroadcastBuilderAPI(s)
      PROVE  Delivered
  <2>1. Announce(s)
    BY <1>7 DEF HandlePayloadBuild, HandlePayloadAvailable, HandleBlockDetail, HandleHeadVoteUpdate,
                BroadcastRevealStarted, BroadcastBuilderAPI
  <2> QED BY <1>1, <2>1
<1>8. ASSUME NEW s \in Nat, BroadcastBidWon(s) PROVE Delivered
  BY <1>0, <1>8, BroadcastForSlotInv DEF BroadcastBidWon
<1>9. ASSUME NEW s \in Nat,
             \/ HandlePayloadReady(s) \/ HandleBidEvent(s) \/ HandleBidSubmission(s)
             \/ BroadcastReveal(s) \/ \E root \in Roots : HandleHeadEvent(s, root)
      PROVE  Delivered
  <2>1. \E known \in BOOLEAN : BroadcastForSlot(s, 1, BroadcastSlotState(known))
    BY <1>9 DEF HandlePayloadReady, HandleBidEvent, HandleBidSubmission, BroadcastReveal, HandleHeadEvent
  <2> QED BY <1>2, <2>1
<1> QED BY <1>3, <1>4, <1>5, <1>6, <1>7, <1>8, <1>9 DEF LoopStep

-----------------------------------------------------------------------------
(* Requests of the event stream.                                           *)

\* A step of one request.
LEMMA RequestMoves ==
    ASSUME StreamInv, NEW c \in Conns, NEW new \in Requests, conn' = [conn EXCEPT ![c] = new],
           UNCHANGED <<slot, seq, cache>>, view' = view,
           new.live =>
             /\ new.pc = "stream" /\ \A d \in Conns : d # c => ~conn[d].live
             /\ ChannelInOrder(new.ch, view.last, seq, cache)
             /\ Reaches(cache, new.ch, view.settled)
    PROVE  StreamInv'
<1>1. conn \in [Conns -> Requests] /\ slot' = slot /\ seq' = seq /\ cache' = cache
  BY DEF StreamInv, StreamTypeOK
<1>2. conn' \in [Conns -> Requests] /\ conn'[c] = new /\ \A d \in Conns : d # c => conn'[d] = conn[d]
  BY <1>1
<1>3. StreamTypeOK'
  BY <1>1, <1>2 DEF StreamInv, StreamTypeOK
<1>4. OneBrowser'
  BY <1>2 DEF StreamInv, OneBrowser
<1>5. InOrder(cache', seq') /\ DropsApplied' /\ view'.last <= seq'
  BY <1>1 DEF StreamInv, DropsApplied
<1>6. ASSUME NEW d \in Conns, conn'[d].live
      PROVE  /\ ChannelInOrder(conn'[d].ch, view'.last, seq', cache')
             /\ Reaches(cache', conn'[d].ch, view'.settled)
  BY <1>1, <1>2, <1>6 DEF StreamInv
<1> QED BY <1>3, <1>4, <1>5, <1>6 DEF StreamInv

\* What a live request is.
LEMMA LiveRequest ==
    ASSUME StreamInv, NEW c \in Conns
    PROVE  /\ conn[c] \in Requests /\ conn[c].ch \in Seq(Events) /\ conn[c].live \in BOOLEAN
           /\ conn[c].todo \in Seq({"config", "other", "states"})
           /\ conn[c].live => /\ conn[c].pc = "stream" /\ \A d \in Conns : d # c => ~conn[d].live
                              /\ ChannelInOrder(conn[c].ch, view.last, seq, cache)
                              /\ Reaches(cache, conn[c].ch, view.settled)
<1>1. conn[c] \in Requests
  BY DEF StreamInv, StreamTypeOK
<1>2. conn[c].ch \in Seq(Events) /\ conn[c].live \in BOOLEAN
      /\ conn[c].todo \in Seq({"config", "other", "states"})
  BY <1>1 DEF Requests
<1>3. conn[c].live => conn[c].pc = "stream" /\ \A d \in Conns : d # c => ~conn[d].live
  BY DEF StreamInv, OneBrowser
<1> QED BY <1>1, <1>2, <1>3 DEF StreamInv

\* The initial state begins with the config.
LEMMA InitialStateType ==
    InitialState \in Seq({"config", "other", "states"}) /\ 1 \in 1 .. Len(InitialState) /\ InitialState[1] = "config"
<1> DEFINE S == {"config", "other", "states"}
           mid == [i \in 1 .. Snapshots |-> "other"]
<1>1. Snapshots \in Nat
  BY StreamAssumption
<1>2. mid \in Seq(S) /\ <<"config">> \in Seq(S) /\ <<"states">> \in Seq(S) /\ Len(<<"config">>) = 1
      /\ <<"config">>[1] = "config" /\ Len(<<"states">>) = 1
  BY <1>1
<1> HIDE DEF mid
<1> DEFINE first == <<"config">> \o mid
<1>3. first \in Seq(S) /\ Len(first) = 1 + Len(mid) /\ Len(mid) \in Nat /\ 1 \in 1 .. 1 + Len(mid)
      /\ \A i \in 1 .. 1 + Len(mid) : first[i] = IF i <= 1 THEN <<"config">>[i] ELSE mid[i - 1]
  BY <1>2, ConcatProperties
<1>4. first[1] = "config"
  BY <1>2, <1>3
<1> HIDE DEF first
<1>5. /\ first \o <<"states">> \in Seq(S) /\ Len(first \o <<"states">>) = Len(first) + 1
      /\ \A i \in 1 .. Len(first) + 1 :
           (first \o <<"states">>)[i] = IF i <= Len(first) THEN first[i] ELSE <<"states">>[i - Len(first)]
  BY <1>2, <1>3, ConcatProperties
<1>6. 1 \in 1 .. Len(first) + 1 /\ 1 <= Len(first)
  BY <1>3
<1> QED BY <1>4, <1>5, <1>6 DEF InitialState, first, mid

\* A browser connects.
LEMMA RegisterInv ==
    ASSUME StreamInv, NEW c \in Conns, RegisterClient(c)
    PROVE  StreamInv' /\ (ConfigOnItsWay /\ Config' = Config /\ tell' = tell => ConfigOnItsWay')
<1> DEFINE ch == [i \in DOMAIN cache |-> Event(cache[i].seq, "slot")]
           new == [pc |-> "stream", todo |-> InitialState, live |-> TRUE, ch |-> ch, cap |-> Len(cache) + Spare]
<1>1. /\ cache \in Seq(Entries) /\ InOrder(cache, seq) /\ Spare \in Nat
      /\ conn \in [Conns -> Requests]
  BY StreamAssumption DEF StreamInv, StreamTypeOK
<1>2. conn' = [conn EXCEPT ![c] = new] /\ UNCHANGED <<slot, seq, cache>> /\ view' = view
      /\ \A d \in Conns : ~conn[d].live
  BY DEF RegisterClient, unstreamed
<1>3. DOMAIN cache = 1 .. Len(cache) /\ Len(cache) \in Nat /\ \A i \in 1 .. Len(cache) : cache[i] \in Entries
  BY <1>1
<1>4. \A i \in 1 .. Len(cache) : cache[i].seq \in Nat
  BY <1>3 DEF Entries
<1>5. ch \in Seq(Events) /\ Len(ch) = Len(cache)
      /\ \A i \in 1 .. Len(cache) : ch[i].seq = cache[i].seq /\ ch[i].type = "slot"
  <2>1. \A i \in 1 .. Len(cache) : Event(cache[i].seq, "slot") \in Events
    BY <1>4 DEF Event, Events, Types
  <2>2. ch = [i \in 1 .. Len(cache) |-> Event(cache[i].seq, "slot")]
    BY <1>3
  <2>3. ch \in Seq(Events) /\ Len(ch) = Len(cache)
    BY <1>3, <2>1, <2>2
  <2> QED BY <2>2, <2>3 DEF Event
<1> HIDE DEF ch
<1>6. new \in Requests /\ new.pc = "stream" /\ new.live /\ new.ch = ch /\ new.todo = InitialState
  <2>1. Len(cache) + Spare \in Nat
    BY <1>1, <1>3
  <2> QED BY <1>5, <2>1, InitialStateType DEF Requests
<1> HIDE DEF new
<1>7. ChannelInOrder(ch, view.last, seq, cache)
  <2>1. "slot" # "config"
    OBVIOUS
  <2> QED BY <1>1, <1>5, <2>1 DEF ChannelInOrder, InOrder
<1>8. Reaches(cache, ch, view.settled)
  BY <1>5 DEF Reaches
<1>9. StreamInv'
  BY <1>2, <1>6, <1>7, <1>8, RequestMoves
<1>10. ASSUME NEW d \in Conns, conn'[d].live
       PROVE  \E i \in 1 .. Len(conn'[d].todo) : conn'[d].todo[i] = "config"
  <2>1. d = c /\ conn'[d].todo = InitialState
    BY <1>1, <1>2, <1>6, <1>10
  <2> QED BY <2>1, InitialStateType
<1> QED BY <1>9, <1>10 DEF ConfigOnItsWay

\* A message of the initial state is sent, unnumbered.
LEMMA SendInitialInv ==
    ASSUME StreamInv, NEW c \in Conns, SendInitial(c)
    PROVE  StreamInv' /\ (ConfigOnItsWay /\ Config' = Config /\ tell' = tell => ConfigOnItsWay')
<1> DEFINE S == {"config", "other", "states"}
           ch == conn[c].ch
           todo == conn[c].todo
<1>1. /\ conn[c] \in Requests /\ ch \in Seq(Events) /\ todo \in Seq(S) /\ conn[c].live \in BOOLEAN
      /\ conn[c].live => /\ conn[c].pc = "stream" /\ \A d \in Conns : d # c => ~conn[d].live
                         /\ ChannelInOrder(ch, view.last, seq, cache)
                         /\ Reaches(cache, ch, view.settled)
  BY LiveRequest
<1>0. /\ conn \in [Conns -> Requests] /\ cache \in Seq(Entries) /\ seq \in Nat
  BY DEF StreamInv, StreamTypeOK
<1>2. todo # <<>> /\ Head(todo) # "states" /\ UNCHANGED <<slot, seq, cache>> /\ view' = view
  BY DEF SendInitial, unstreamed
<1>3. /\ Head(todo) \in {"config", "other"} /\ Tail(todo) \in Seq(S)
      /\ Len(Tail(todo)) = Len(todo) - 1 /\ Head(todo) = todo[1] /\ Len(todo) \in Nat
      /\ \A i \in 1 .. Len(Tail(todo)) : Tail(todo)[i] = todo[i + 1]
  <2>1. /\ Head(todo) \in S /\ Tail(todo) \in Seq(S)
        /\ Len(Tail(todo)) = Len(todo) - 1 /\ \A i \in 1 .. Len(Tail(todo)) : Tail(todo)[i] = todo[i + 1]
    BY <1>1, <1>2, HeadTailProperties
  <2> QED BY <1>1, <1>2, <2>1
<1>4. PICK e \in Events : e = Event(0, Head(todo)) /\ e.seq = 0 /\ e.type = Head(todo)
  <2>1. Event(0, Head(todo)) \in Events /\ Event(0, Head(todo)).seq = 0 /\ Event(0, Head(todo)).type = Head(todo)
    BY <1>3 DEF Event, Events, Types
  <2> QED BY <2>1
<1>5. PICK sent \in Seq(Events) : sent = Sent(c, <<Event(0, Head(todo))>>) /\ (conn[c].live => sent = <<e>>)
  <2>1. <<e>> \in Seq(Events) /\ DOMAIN <<e>> = 1 .. 1
    OBVIOUS
  <2>2. [i \in DOMAIN <<e>> |-> Event(0, "other")] \in Seq(Events)
    <3>1. Event(0, "other") \in Events
      BY DEF Event, Events, Types
    <3> QED BY <2>1, <3>1
  <2> QED BY <1>4, <2>1, <2>2 DEF Sent
<1> DEFINE new == [conn[c] EXCEPT !.ch = @ \o sent, !.todo = Tail(@)]
<1>6. conn' = [conn EXCEPT ![c] = new]
  BY <1>0, <1>1, <1>5 DEF SendInitial, Requests
<1>7. /\ new \in Requests /\ new.ch = ch \o sent /\ new.todo = Tail(todo)
      /\ new.live = conn[c].live /\ new.pc = conn[c].pc
  <2>1. ch \o sent \in Seq(Events)
    BY <1>1
  <2> QED BY <1>1, <1>3, <2>1 DEF Requests
<1> HIDE DEF new
<1>8. ASSUME conn[c].live
      PROVE  /\ ChannelInOrder(new.ch, view.last, seq, cache) /\ Reaches(cache, new.ch, view.settled)
             /\ \A j \in 1 .. Len(ch) : j \in 1 .. Len(new.ch) /\ new.ch[j] = ch[j]
             /\ Len(new.ch) = Len(ch) + 1 /\ new.ch[Len(new.ch)] = e /\ Len(ch) \in Nat
  <2>1. PICK long : long = new.ch
    OBVIOUS
  <2>2. /\ Len(long) = Len(ch) + 1 /\ long[Len(ch) + 1] = e /\ Len(ch) \in Nat
        /\ \A j \in 1 .. Len(ch) : long[j] = ch[j] /\ j \in 1 .. Len(ch) + 1
    <3>1. long = ch \o <<e>> /\ <<e>> \in Seq(Events) /\ Len(<<e>>) = 1 /\ <<e>>[1] = e
      BY <1>5, <1>7, <1>8, <2>1
    <3>2. PICK n \in Nat : n = Len(ch)
      BY <1>1
    <3>3. /\ Len(long) = n + 1
          /\ \A i \in 1 .. n + 1 : long[i] = IF i <= n THEN ch[i] ELSE <<e>>[i - n]
      BY <1>1, <3>1, <3>2, ConcatProperties
    <3>4. n + 1 \in 1 .. n + 1 /\ ~(n + 1 <= n) /\ (n + 1) - n = 1
      OBVIOUS
    <3>5. \A i \in 1 .. n : i \in 1 .. n + 1 /\ i <= n
      OBVIOUS
    <3> QED BY <3>1, <3>2, <3>3, <3>4, <3>5
  <2>3. ChannelInOrder(ch, view.last, seq, cache) /\ Reaches(cache, ch, view.settled)
    BY <1>1, <1>8
  <2> HIDE DEF ch
  <2>4. ASSUME NEW j \in 1 .. Len(long)
        PROVE  (j \in 1 .. Len(ch) /\ long[j] = ch[j]) \/ (j = Len(ch) + 1 /\ long[j].seq = 0)
    BY <1>4, <2>2
  <2>5. \A i \in 1 .. Len(cache) : cache[i].seq # 0
    <3>1. \A i \in 1 .. Len(cache) : cache[i] \in Entries
      BY <1>0
    <3> QED BY <3>1 DEF Entries
  <2>6. \A i, j \in 1 .. Len(long) : i < j /\ long[j].seq > 0 => long[i].seq < long[j].seq
    <3> SUFFICES ASSUME NEW i \in 1 .. Len(long), NEW j \in 1 .. Len(long), i < j, long[j].seq > 0
                 PROVE  long[i].seq < long[j].seq
      OBVIOUS
    <3>1. j \in 1 .. Len(ch) /\ long[j] = ch[j]
      BY <2>4
    <3>2. i \in 1 .. Len(ch)
      BY <2>2, <3>1
    <3>3. long[i] = ch[i]
      BY <2>2, <3>2
    <3> QED BY <2>3, <3>1, <3>2, <3>3 DEF ChannelInOrder
  <2>7. \A j \in 1 .. Len(long) : long[j].seq <= seq
    BY <1>0, <2>3, <2>4 DEF ChannelInOrder
  <2>8. \A j \in 1 .. Len(long) : long[j].type = "config" /\ long[j].seq > 0 => view.last < long[j].seq
    BY <2>3, <2>4 DEF ChannelInOrder
  <2>9. \A j \in 1 .. Len(long), i \in 1 .. Len(cache) : long[j].seq = cache[i].seq => long[j].type = "slot"
    BY <2>3, <2>4, <2>5 DEF ChannelInOrder
  <2>10. ChannelInOrder(long, view.last, seq, cache)
    BY <2>6, <2>7, <2>8, <2>9 DEF ChannelInOrder
  <2>11. Reaches(cache, long, view.settled)
    BY <2>2, <2>3 DEF Reaches
  <2> QED BY <2>1, <2>2, <2>10, <2>11
<1>9. StreamInv'
  BY <1>1, <1>2, <1>6, <1>7, <1>8, RequestMoves
<1>10. ASSUME ConfigOnItsWay, Config' = Config, tell' = tell PROVE ConfigOnItsWay'
  <2> SUFFICES ASSUME NEW d \in Conns, conn'[d].live
               PROVE  \/ view.config = Config \/ view.stale \/ tell["config"] > 0
                      \/ \E i \in 1 .. Len(conn'[d].todo) : conn'[d].todo[i] = "config"
                      \/ \E j \in 1 .. Len(conn'[d].ch) : conn'[d].ch[j].type = "config"
    BY <1>2, <1>10 DEF ConfigOnItsWay
  <2>1. CASE d # c
    BY <1>0, <1>6, <1>10, <2>1 DEF ConfigOnItsWay
  <2>2. CASE d = c
    <3>1. conn'[d] = new /\ conn[c].live
      BY <1>0, <1>6, <1>7, <2>2
    <3>2. CASE \E i \in 1 .. Len(todo) : todo[i] = "config"
      <4>1. PICK i \in 1 .. Len(todo) : todo[i] = "config"
        BY <3>2
      <4>2. CASE i = 1
        <5>1. e.type = "config"
          BY <1>3, <1>4, <4>1, <4>2
        <5>2. Len(new.ch) \in 1 .. Len(new.ch) /\ new.ch[Len(new.ch)].type = "config"
          BY <1>8, <3>1, <5>1
        <5> QED BY <3>1, <5>2
      <4>3. CASE i # 1
        <5>1. i - 1 \in 1 .. Len(Tail(todo)) /\ (i - 1) + 1 = i
          BY <1>3, <4>3
        <5>2. Tail(todo)[i - 1] = "config"
          BY <1>3, <4>1, <5>1
        <5> QED BY <1>7, <3>1, <5>1, <5>2
      <4> QED BY <4>2, <4>3
    <3>3. CASE \E j \in 1 .. Len(ch) : ch[j].type = "config"
      BY <1>8, <3>1, <3>3
    <3> QED BY <1>10, <3>1, <3>2, <3>3 DEF ConfigOnItsWay
  <2> QED BY <2>1, <2>2
<1> QED BY <1>9, <1>10

\* The states are copied, or what is left is given up, of a request that has no config to
\* send or whose browser left; a connection breaks; a handler leaves.
LEMMA RestInv ==
    ASSUME StreamInv, NEW c \in Conns,
           CopyStates(c) \/ QuitInitial(c) \/ Disconnect(c) \/ Leave(c) \/ RemoveClient(c)
    PROVE  StreamInv' /\ (ConfigOnItsWay /\ Config' = Config /\ tell' = tell => ConfigOnItsWay')
<1> DEFINE S == {"config", "other", "states"}
<1>0. conn \in [Conns -> Requests] /\ conn[c] \in Requests
  BY DEF StreamInv, StreamTypeOK
<1>1. /\ conn[c].ch \in Seq(Events) /\ conn[c].todo \in Seq(S) /\ conn[c].live \in BOOLEAN
      /\ conn[c].live => /\ conn[c].pc = "stream" /\ \A d \in Conns : d # c => ~conn[d].live
                         /\ ChannelInOrder(conn[c].ch, view.last, seq, cache)
                         /\ Reaches(cache, conn[c].ch, view.settled)
  BY LiveRequest
<1>2. UNCHANGED <<slot, seq, cache>> /\ view' = view
  BY DEF CopyStates, QuitInitial, Disconnect, Leave, RemoveClient, unstreamed
<1>3. ASSUME NEW new \in Requests, conn' = [conn EXCEPT ![c] = new],
             new.live => /\ conn[c].live /\ new.pc = conn[c].pc /\ new.ch = conn[c].ch
                         /\ new.todo = conn[c].todo \/ conn[c].todo = <<"states">>
      PROVE  StreamInv' /\ (ConfigOnItsWay /\ Config' = Config /\ tell' = tell => ConfigOnItsWay')
  <2>1. StreamInv'
    BY <1>1, <1>2, <1>3, RequestMoves
  <2>2. ASSUME ConfigOnItsWay, Config' = Config, tell' = tell, NEW d \in Conns, conn'[d].live
        PROVE  \/ view.config = Config \/ view.stale \/ tell["config"] > 0
               \/ \E i \in 1 .. Len(conn'[d].todo) : conn'[d].todo[i] = "config"
               \/ \E j \in 1 .. Len(conn'[d].ch) : conn'[d].ch[j].type = "config"
    <3>1. CASE d # c
      BY <1>0, <1>3, <2>2, <3>1 DEF ConfigOnItsWay
    <3>2. CASE d = c
      <4>1. conn'[d] = new /\ new.live
        BY <1>0, <1>3, <2>2, <3>2
      <4>2. ~(\E i \in 1 .. Len(<<"states">>) : <<"states">>[i] = "config")
        <5>1. \A i \in 1 .. Len(<<"states">>) : <<"states">>[i] = "states"
          OBVIOUS
        <5> QED BY <5>1
      <4> QED BY <1>3, <2>2, <4>1, <4>2 DEF ConfigOnItsWay
    <3> QED BY <3>1, <3>2
  <2> QED BY <1>2, <2>1, <2>2 DEF ConfigOnItsWay
<1>4. CASE CopyStates(c)
  <2>1. PICK n \in 0 .. SlotStates : conn' = [conn EXCEPT ![c].todo = [i \in 1 .. n |-> "other"]]
    BY <1>4 DEF CopyStates
  <2> DEFINE new == [conn[c] EXCEPT !.todo = [i \in 1 .. n |-> "other"]]
  <2>2. n \in Nat /\ [i \in 1 .. n |-> "other"] \in Seq(S)
    <3>1. n \in Nat
      BY StreamAssumption
    <3> QED BY <3>1
  <2>3. conn' = [conn EXCEPT ![c] = new] /\ conn[c].todo = <<"states">>
    BY <1>0, <1>4, <2>1 DEF CopyStates
  <2>4. new \in Requests /\ new.live = conn[c].live /\ new.pc = conn[c].pc /\ new.ch = conn[c].ch
    BY <1>0, <2>2 DEF Requests
  <2> HIDE DEF new
  <2> QED BY <1>3, <2>3, <2>4
<1>5. CASE QuitInitial(c)
  <2> DEFINE new == [conn[c] EXCEPT !.todo = <<>>]
  <2>1. conn' = [conn EXCEPT ![c] = new] /\ ~conn[c].live
    BY <1>0, <1>5 DEF QuitInitial
  <2>a. <<>> \in Seq(S)
    OBVIOUS
  <2>2. new \in Requests /\ new.live = conn[c].live
    BY <1>0, <2>a DEF Requests
  <2> HIDE DEF new
  <2> QED BY <1>3, <2>1, <2>2
<1>6. CASE Disconnect(c)
  <2> DEFINE zeros == [i \in DOMAIN conn[c].ch |-> Event(0, "other")]
             new == [conn[c] EXCEPT !.live = FALSE, !.ch = zeros]
  <2>1. conn' = [conn EXCEPT ![c] = new]
    BY <1>0, <1>6 DEF Disconnect, Requests
  <2>2. zeros \in Seq(Events)
    <3>1. Event(0, "other") \in Events /\ DOMAIN conn[c].ch = 1 .. Len(conn[c].ch) /\ Len(conn[c].ch) \in Nat
      BY <1>1 DEF Event, Events, Types
    <3> QED BY <3>1
  <2>3. new \in Requests /\ ~new.live
    BY <1>0, <2>2 DEF Requests
  <2> HIDE DEF new
  <2> QED BY <1>3, <2>1, <2>3
<1>7. CASE Leave(c)
  <2> DEFINE new == [conn[c] EXCEPT !.pc = "leave"]
  <2>1. conn' = [conn EXCEPT ![c] = new] /\ ~conn[c].live
    BY <1>0, <1>7 DEF Leave
  <2>2. new \in Requests /\ new.live = conn[c].live
    BY <1>0 DEF Requests
  <2> HIDE DEF new
  <2> QED BY <1>3, <2>1, <2>2
<1>8. CASE RemoveClient(c)
  <2>1. NoConn \in Requests /\ ~NoConn.live
    BY DEF NoConn, Requests
  <2> QED BY <1>3, <1>8, <2>1 DEF RemoveClient
<1> QED BY <1>4, <1>5, <1>6, <1>7, <1>8

\* The browser processes the first event of its channel.
LEMMA WriteInv ==
    ASSUME StreamInv, NEW c \in Conns, Write(c, Config)
    PROVE  StreamInv' /\ (ConfigOnItsWay /\ Config' = Config /\ tell' = tell => ConfigOnItsWay')
<1>0. /\ conn \in [Conns -> Requests] /\ conn[c] \in Requests /\ StreamTypeOK
      /\ cache \in Seq(Entries) /\ seq \in Nat /\ view.last \in Nat /\ view.last <= seq /\ DropsApplied
      /\ DOMAIN view = {"last", "settled", "config", "stale"} /\ view.stale \in BOOLEAN
      /\ InOrder(cache, seq)
  BY DEF StreamInv, StreamTypeOK
<1>1. /\ conn[c].ch \in Seq(Events) /\ conn[c].live \in BOOLEAN
      /\ conn[c].live => /\ conn[c].pc = "stream" /\ \A d \in Conns : d # c => ~conn[d].live
                         /\ ChannelInOrder(conn[c].ch, view.last, seq, cache)
                         /\ Reaches(cache, conn[c].ch, view.settled)
  BY LiveRequest
<1>2. /\ UNCHANGED <<slot, seq, cache>> /\ conn[c].ch # <<>>
      /\ view' = IF conn[c].live THEN Processes(Head(conn[c].ch), Config) ELSE view
  BY DEF Write, unstreamed
<1> DEFINE new == [conn[c] EXCEPT !.ch = Tail(@)]
<1>3. conn' = [conn EXCEPT ![c] = new]
  BY <1>0 DEF Write, Requests
<1>4. PICK ch \in Seq(Events) : ch = conn[c].ch
  BY <1>1
<1>5. PICK rest \in Seq(Events) : rest = Tail(ch) /\ Len(rest) = Len(ch) - 1 /\ Len(ch) \in Nat
        /\ \A i \in 1 .. Len(rest) : rest[i] = ch[i + 1]
  <2>1. /\ Tail(ch) \in Seq(Events) /\ Len(Tail(ch)) = Len(ch) - 1
        /\ \A i \in 1 .. Len(Tail(ch)) : Tail(ch)[i] = ch[i + 1]
    BY <1>2, <1>4, HeadTailProperties
  <2>2. Len(ch) \in Nat
    OBVIOUS
  <2> QED BY <2>1, <2>2, Zenon
<1>6. PICK e \in Events : e = Head(ch) /\ e = ch[1] /\ 1 \in 1 .. Len(ch)
  <2>1. ch # <<>> /\ Head(ch) = ch[1] /\ 1 \in 1 .. Len(ch)
    BY <1>2, <1>4
  <2> QED BY <1>4, <2>1
<1>7. new \in Requests /\ new.ch = rest /\ new.live = conn[c].live /\ new.pc = conn[c].pc /\ new.todo = conn[c].todo
  BY <1>0, <1>4, <1>5 DEF Requests
<1> HIDE DEF new
<1>8. /\ conn' \in [Conns -> Requests] /\ conn'[c] = new /\ \A d \in Conns : d # c => conn'[d] = conn[d]
  BY <1>0, <1>3, <1>7
<1>9. \A i \in 1 .. Len(rest) : i + 1 \in 1 .. Len(ch) /\ rest[i] = ch[i + 1] /\ 1 < i + 1
  BY <1>5
<1>10. ASSUME NEW j \in 1 .. Len(ch), j # 1 PROVE \E i \in 1 .. Len(rest) : j = i + 1 /\ rest[i] = ch[j]
  <2>1. j - 1 \in 1 .. Len(rest) /\ j = (j - 1) + 1
    BY <1>5, <1>10
  <2> QED BY <1>9, <2>1
<1>11. \A j \in 1 .. Len(ch) : ch[j].seq \in Nat /\ ch[j].type \in Types
  <2>1. \A j \in 1 .. Len(ch) : ch[j] \in Events
    OBVIOUS
  <2> QED BY <2>1 DEF Events
<1>12. CASE ~conn[c].live
  <2>1. view' = view /\ ~new.live
    BY <1>2, <1>7, <1>12
  <2>2. StreamInv'
    BY <1>2, <1>3, <1>7, <2>1, RequestMoves
  <2>3. ASSUME NEW d \in Conns, conn'[d].live PROVE conn'[d] = conn[d]
    BY <1>8, <2>1, <2>3
  <2> QED BY <2>1, <2>2, <2>3 DEF ConfigOnItsWay
<1>13. CASE conn[c].live
  <2>0. /\ ChannelInOrder(ch, view.last, seq, cache) /\ Reaches(cache, ch, view.settled)
        /\ \A d \in Conns : d # c => ~conn'[d].live
    BY <1>1, <1>4, <1>8, <1>13
  <2>1. /\ \A i, j \in 1 .. Len(ch) : i < j /\ ch[j].seq > 0 => ch[i].seq < ch[j].seq
        /\ \A j \in 1 .. Len(ch) : ch[j].seq <= seq
        /\ \A j \in 1 .. Len(ch) : ch[j].type = "config" /\ ch[j].seq > 0 => view.last < ch[j].seq
        /\ \A j \in 1 .. Len(ch), i \in 1 .. Len(cache) : ch[j].seq = cache[i].seq => ch[j].type = "slot"
    BY <2>0 DEF ChannelInOrder
  <2>2. view' = Processes(e, Config) /\ e.seq \in Nat /\ e.seq <= seq /\ e.type \in Types
    BY <1>2, <1>4, <1>6, <1>11, <1>13, <2>1
  <2> DEFINE dropped == e.seq > 0 /\ e.seq <= view.last
  <2>3. dropped => view' = view
    BY <2>2 DEF Processes
  <2>4. ~dropped =>
          /\ DOMAIN view' = DOMAIN view
          /\ view'.last = (IF e.seq > 0 THEN e.seq ELSE view.last)
          /\ view'.settled = (IF e.type = "slot" THEN view.settled \cup {e.seq} ELSE view.settled)
          /\ view'.config = (IF e.type = "config" THEN Config ELSE view.config)
          /\ view'.stale = (view.stale /\ e.type # "config")
    BY <1>0, <2>2 DEF Processes
  <2>5. /\ DOMAIN view' = DOMAIN view /\ view'.last \in Nat /\ view'.last <= seq /\ view'.stale \in BOOLEAN
        /\ view.settled \subseteq view'.settled
        /\ view'.last = view.last \/ (view'.last = e.seq /\ e.seq > view.last)
    <3>1. CASE dropped
      BY <1>0, <2>3, <3>1
    <3>2. CASE ~dropped
      <4>1. view'.last = view.last \/ (view'.last = e.seq /\ e.seq > view.last)
        BY <1>0, <2>2, <2>4, <3>2
      <4>2. view'.last \in Nat /\ view'.last <= seq
        BY <1>0, <2>2, <4>1
      <4>3. view'.stale \in BOOLEAN /\ view.settled \subseteq view'.settled /\ DOMAIN view' = DOMAIN view
        BY <2>4, <3>2
      <4> QED BY <4>1, <4>2, <4>3
    <3> QED BY <3>1, <3>2
  \* An event that is cached is applied, now or before.
  <2>6. ASSUME NEW i \in 1 .. Len(cache), e.seq = cache[i].seq PROVE cache[i].seq \in view'.settled
    <3>1. CASE dropped
      BY <1>0, <2>3, <2>6, <3>1 DEF DropsApplied
    <3>2. CASE ~dropped
      <4>1. e.type = "slot"
        BY <1>6, <2>1, <2>6
      <4> QED BY <2>4, <2>6, <3>2, <4>1
    <3> QED BY <3>1, <3>2
  <2>7. StreamTypeOK'
    BY <1>0, <1>2, <1>8, <2>5 DEF StreamTypeOK
  <2>8. OneBrowser'
    BY <1>1, <1>7, <1>8, <2>0 DEF OneBrowser
  <2>9. \A i \in 1 .. Len(cache) : cache[i].seq \in Nat /\ cache[i].seq > 0
    <3>1. \A i \in 1 .. Len(cache) : cache[i] \in Entries
      BY <1>0
    <3> QED BY <3>1 DEF Entries
  <2>10. DropsApplied'
    <3> SUFFICES ASSUME NEW i \in 1 .. Len(cache), cache[i].seq <= view'.last
                 PROVE  cache[i].seq \in view'.settled
      BY <1>2 DEF DropsApplied
    <3>1. CASE cache[i].seq <= view.last
      BY <1>0, <2>5, <3>1 DEF DropsApplied
    <3>2. CASE ~(cache[i].seq <= view.last)
      <4>1. cache[i].seq <= e.seq /\ cache[i].seq > 0
        BY <2>5, <2>9, <3>2
      <4>2. CASE cache[i].seq \in view.settled
        BY <2>5, <4>2
      <4>3. CASE \E j \in 1 .. Len(ch) : ch[j].seq = cache[i].seq
        <5>1. PICK j \in 1 .. Len(ch) : ch[j].seq = cache[i].seq
          BY <4>3
        <5>2. CASE j = 1
          BY <1>6, <2>6, <5>1, <5>2
        <5>3. CASE j # 1
          <6>1. 1 < j
            BY <5>3
          <6>2. e.seq < ch[j].seq
            BY <1>6, <2>1, <4>1, <5>1, <6>1
          <6> QED BY <2>2, <2>9, <4>1, <5>1, <6>2
        <5> QED BY <5>2, <5>3
      <4> QED BY <2>0, <4>2, <4>3 DEF Reaches
    <3> QED BY <3>1, <3>2
  <2>11. ChannelInOrder(rest, view'.last, seq, cache)
    <3>1. \A i, j \in 1 .. Len(rest) : i < j /\ rest[j].seq > 0 => rest[i].seq < rest[j].seq
      <4> SUFFICES ASSUME NEW i \in 1 .. Len(rest), NEW j \in 1 .. Len(rest), i < j, rest[j].seq > 0
                   PROVE  rest[i].seq < rest[j].seq
        OBVIOUS
      <4>1. i + 1 < j + 1
        OBVIOUS
      <4> QED BY <1>9, <2>1, <4>1
    <3>2. \A j \in 1 .. Len(rest) : rest[j].seq <= seq
      BY <1>9, <2>1
    <3>3. ASSUME NEW j \in 1 .. Len(rest), rest[j].type = "config", rest[j].seq > 0
          PROVE  view'.last < rest[j].seq
      <4>1. j + 1 \in 1 .. Len(ch) /\ rest[j] = ch[j + 1] /\ 1 < j + 1
        BY <1>9
      <4>2. view.last < rest[j].seq /\ e.seq < rest[j].seq
        BY <1>6, <2>1, <3>3, <4>1
      <4> QED BY <2>5, <4>2
    <3>4. \A j \in 1 .. Len(rest), i \in 1 .. Len(cache) : rest[j].seq = cache[i].seq => rest[j].type = "slot"
      BY <1>9, <2>1
    <3> QED BY <3>1, <3>2, <3>3, <3>4 DEF ChannelInOrder
  <2>12. Reaches(cache, rest, view'.settled)
    <3> SUFFICES ASSUME NEW i \in 1 .. Len(cache)
                 PROVE  cache[i].seq \in view'.settled \/ \E j \in 1 .. Len(rest) : rest[j].seq = cache[i].seq
      BY DEF Reaches
    <3>1. CASE cache[i].seq \in view.settled
      BY <2>5, <3>1
    <3>2. CASE \E j \in 1 .. Len(ch) : ch[j].seq = cache[i].seq
      <4>1. PICK j \in 1 .. Len(ch) : ch[j].seq = cache[i].seq
        BY <3>2
      <4>2. CASE j = 1
        BY <1>6, <2>6, <4>1, <4>2
      <4>3. CASE j # 1
        BY <1>10, <4>1, <4>3
      <4> QED BY <4>2, <4>3
    <3> QED BY <2>0, <3>1, <3>2 DEF Reaches
  <2>13. StreamInv'
    <3>1. ASSUME NEW d \in Conns, conn'[d].live
          PROVE  /\ ChannelInOrder(conn'[d].ch, view'.last, seq', cache')
                 /\ Reaches(cache', conn'[d].ch, view'.settled)
      <4>1. d = c /\ conn'[d].ch = rest
        BY <1>7, <1>8, <2>0, <3>1
      <4> QED BY <1>2, <2>11, <2>12, <4>1
    <3> QED BY <1>0, <1>2, <2>5, <2>7, <2>8, <2>10, <3>1 DEF StreamInv
  <2>14. ASSUME ConfigOnItsWay, Config' = Config, tell' = tell PROVE ConfigOnItsWay'
    <3> SUFFICES ASSUME NEW d \in Conns, conn'[d].live
                 PROVE  \/ view'.config = Config \/ view'.stale \/ tell["config"] > 0
                        \/ \E i \in 1 .. Len(conn'[d].todo) : conn'[d].todo[i] = "config"
                        \/ \E j \in 1 .. Len(conn'[d].ch) : conn'[d].ch[j].type = "config"
      BY <2>14 DEF ConfigOnItsWay
    <3>1. d = c /\ conn'[d].ch = rest /\ conn'[d].todo = conn[c].todo
      BY <1>7, <1>8, <2>0
    <3>2. CASE e.type = "config"
      <4>1. ~dropped
        BY <1>0, <1>6, <2>1, <2>2, <3>2
      <4> QED BY <2>4, <3>2, <4>1
    <3>3. CASE e.type # "config"
      <4>1. view'.config = view.config /\ (view.stale => view'.stale)
        BY <2>3, <2>4, <3>3
      <4>2. CASE \E j \in 1 .. Len(ch) : ch[j].type = "config"
        <5>1. PICK j \in 1 .. Len(ch) : ch[j].type = "config"
          BY <4>2
        <5>2. j # 1
          BY <1>6, <3>3, <5>1
        <5>3. PICK i \in 1 .. Len(rest) : rest[i] = ch[j]
          BY <1>10, <5>2
        <5> QED BY <3>1, <5>1, <5>3
      <4>3. CASE \E i \in 1 .. Len(conn[c].todo) : conn[c].todo[i] = "config"
        BY <3>1, <4>3
      <4> QED BY <1>4, <1>13, <2>14, <4>1, <4>2, <4>3 DEF ConfigOnItsWay
    <3> QED BY <3>2, <3>3
  <2> QED BY <2>13, <2>14
<1> QED BY <1>1, <1>12, <1>13

-----------------------------------------------------------------------------
(* The process.                                                            *)

\* What delivering does to a config on its way: what browsers are sent stays sent, and a
\* config that is announced is sent or put down as not sent.
LEMMA ConfigDelivered ==
    ASSUME StreamInv, ConfigOnItsWay, NEW types \in Seq(Types), DeliverLocked(types), Config' = Config,
           tell'["config"] > 0 \/ ~(tell["config"] > 0) \/ (types = <<"config">>)
    PROVE  ConfigOnItsWay'
<1> SUFFICES ASSUME NEW c \in Conns, conn'[c].live
             PROVE  \/ view'.config = Config \/ view'.stale \/ tell'["config"] > 0
                    \/ \E i \in 1 .. Len(conn'[c].todo) : conn'[c].todo[i] = "config"
                    \/ \E j \in 1 .. Len(conn'[c].ch) : conn'[c].ch[j].type = "config"
  BY DEF ConfigOnItsWay
<1>1. /\ conn[c].live /\ conn'[c].todo = conn[c].todo /\ view'.config = view.config
      /\ view.stale => view'.stale
  BY Delivers
<1>2. PICK r \in Nat :
        /\ Gets(c, types, r)
        /\ \A i \in 1 .. Len(types) : i > r => (types[i] = "config" => view'.stale)
  BY <1>1, Delivers
<1>3. PICK n \in Nat : n = Len(conn[c].ch)
  <2>1. conn[c].ch \in Seq(Events)
    BY LiveRequest
  <2> QED BY <2>1
<1>4. PICK new : new = conn'[c].ch
  OBVIOUS
<1>5. /\ Len(new) = n + r /\ \A j \in 1 .. n : j \in 1 .. n + r /\ new[j] = conn[c].ch[j]
      /\ \A i \in 1 .. r : n + i \in 1 .. n + r /\ new[n + i] = [seq |-> seq + i, type |-> types[i]]
  BY <1>2, <1>3, <1>4 DEF Gets
<1>6. CASE \E j \in 1 .. n : conn[c].ch[j].type = "config"
  BY <1>4, <1>5, <1>6
<1>7. CASE types = <<"config">>
  <2>1. Len(types) = 1 /\ types[1] = "config" /\ 1 \in 1 .. Len(types)
    BY <1>7
  <2>2. CASE r = 0
    <3>1. 1 > r
      BY <2>2
    <3> QED BY <1>2, <2>1, <3>1
  <2>3. CASE r # 0
    <3>1. 1 \in 1 .. r
      BY <2>3
    <3>2. n + 1 \in 1 .. n + r /\ new[n + 1] = [seq |-> seq + 1, type |-> types[1]]
      BY <1>5, <3>1
    <3>3. new[n + 1].type = "config"
      BY <2>1, <3>2
    <3> QED BY <1>4, <1>5, <3>2, <3>3
  <2> QED BY <2>2, <2>3
<1> QED BY <1>1, <1>3, <1>6, <1>7 DEF ConfigOnItsWay

\* A request is applied.  What the config shows is then announced, or did not change.
LEMMA PostInv ==
    ASSUME WebInv, NEW keys \in SUBSET Keys, NEW event \in {"config", "other"}, Post(keys, event),
           event = "config" \/ keys \subseteq Toggles
    PROVE  WebInv'
<1>1. SettingsInv /\ StreamInv /\ ConfigOnItsWay /\ DOMAIN tell = {"config", "other"}
      /\ \A e \in {"config", "other"} : tell[e] \in Nat
  BY DEF WebInv
<1>2. PICK updates \in [keys -> Values] : SetMany(updates)
  BY DEF Post
<1>3. SettingsInv' /\ \A k \in Keys \ keys : effective'[k] = effective[k]
  BY <1>1, <1>2, SetManyInv
<1>4. UNCHANGED streamVars /\ tell' = [tell EXCEPT ![event] = @ + 1]
  BY DEF Post
<1>5. slot' = slot /\ seq' = seq /\ cache' = cache /\ conn' = conn /\ view' = view
  BY <1>4 DEF streamVars
<1>6. StreamInv'
  BY <1>1, <1>5 DEF StreamInv, StreamTypeOK, OneBrowser, DropsApplied
<1>7. DOMAIN tell' = {"config", "other"} /\ (\A e \in {"config", "other"} : tell'[e] \in Nat)
  BY <1>1, <1>4
<1>8. ConfigOnItsWay'
  <2>1. CASE event = "config"
    <3>1. tell'["config"] > 0
      BY <1>1, <1>4, <2>1
    <3> QED BY <3>1 DEF ConfigOnItsWay
  <2>2. CASE event # "config"
    <3>1. Config' = Config
      BY <1>3, <2>2 DEF Config, Restrict
    <3>2. tell'["config"] = tell["config"]
      BY <1>1, <1>4, <2>2
    <3> QED BY <1>1, <1>5, <3>1, <3>2 DEF ConfigOnItsWay
  <2> QED BY <2>1, <2>2
<1> QED BY <1>3, <1>6, <1>7, <1>8 DEF WebInv

LEMMA TellInv ==
    ASSUME WebInv, NEW event \in {"config", "other"}, Tell(event)
    PROVE  WebInv'
<1>1. SettingsInv /\ StreamInv /\ ConfigOnItsWay /\ DOMAIN tell = {"config", "other"}
      /\ \A e \in {"config", "other"} : tell[e] \in Nat
  BY DEF WebInv
<1>2. Broadcast(event) /\ tell[event] > 0 /\ tell' = [tell EXCEPT ![event] = @ - 1]
      /\ UNCHANGED settingVars
  BY DEF Tell
<1>3. top' = top /\ layer' = layer /\ rows' = rows /\ flags' = flags /\ effective' = effective
  BY <1>2 DEF settingVars
<1>4. SettingsInv' /\ Config' = Config
  BY <1>1, <1>3 DEF SettingsInv, Recompute, Config, Restrict
<1>5. StreamInv'
  BY <1>1, <1>2, BroadcastInv DEF Types, Delivered
<1>6. <<event>> \in Seq(Types) /\ DeliverLocked(<<event>>)
  BY <1>2 DEF Broadcast, Types
<1>7. DOMAIN tell' = {"config", "other"} /\ (\A e \in {"config", "other"} : tell'[e] \in Nat)
  BY <1>1, <1>2
<1>8. event = "config" \/ tell'["config"] = tell["config"]
  BY <1>1, <1>2
<1>9. ConfigOnItsWay'
  BY <1>1, <1>4, <1>6, <1>8, ConfigDelivered
<1> QED BY <1>4, <1>5, <1>7, <1>9 DEF WebInv

\* Steps of the stream alone.
LEMMA StreamSideInv ==
    ASSUME WebInv, UNCHANGED unset,
           \/ LoopStep
           \/ \E c \in Conns : RegisterClient(c) \/ Disconnect(c) \/ HandlerStep(c, Config) \/ InitialStep(c)
    PROVE  WebInv'
<1>1. SettingsInv /\ StreamInv /\ ConfigOnItsWay
  BY DEF WebInv
<1>2. /\ top' = top /\ layer' = layer /\ rows' = rows /\ flags' = flags /\ effective' = effective
      /\ tell' = tell
  BY DEF unset, settingVars
<1>3. SettingsInv' /\ Config' = Config
  BY <1>1, <1>2 DEF SettingsInv, Recompute, Config, Restrict
<1>4. CASE LoopStep
  <2>1. StreamInv' /\ \E types \in Seq(Types) : DeliverLocked(types)
    BY <1>1, <1>4, LoopInv DEF Delivered
  <2>2. ConfigOnItsWay'
    BY <1>1, <1>2, <1>3, <2>1, ConfigDelivered
  <2> QED BY <1>2, <1>3, <2>1, <2>2 DEF WebInv
<1>5. ASSUME NEW c \in Conns,
             RegisterClient(c) \/ Disconnect(c) \/ HandlerStep(c, Config) \/ InitialStep(c)
      PROVE  WebInv'
  <2>1. StreamInv' /\ ConfigOnItsWay'
    BY <1>1, <1>2, <1>3, <1>5, RegisterInv, SendInitialInv, RestInv, WriteInv DEF HandlerStep, InitialStep
  <2> QED BY <1>2, <1>3, <2>1 DEF WebInv
<1> QED BY <1>4, <1>5

LEMMA RestartInv ==
    ASSUME WebInv, Restart
    PROVE  WebInv'
<1>1. SettingsInv /\ StreamInv
  BY DEF WebInv
<1>2. SettingsInv'
  BY <1>1, NewServiceInv DEF Restart
<1>3. /\ seq' = seq + 1 /\ slot' = slot /\ cache' = <<>> /\ view' = view /\ tell' = Quiet
      /\ conn' = [c \in Conns |-> NoConn]
  BY DEF Restart, StreamRestart, Seed
<1>4. NoConn \in Requests /\ ~NoConn.live
  BY DEF NoConn, Requests
<1>5. /\ conn' \in [Conns -> Requests] /\ \A c \in Conns : ~conn'[c].live
  BY <1>3, <1>4
<1>6. cache' \in Seq(Entries) /\ Len(cache') = 0
  BY <1>3
<1>7. StreamTypeOK' /\ view'.last <= seq'
  BY <1>1, <1>3, <1>5, <1>6 DEF StreamInv, StreamTypeOK
<1>8. InOrder(cache', seq') /\ DropsApplied'
  BY <1>6 DEF InOrder, DropsApplied
<1>9. StreamInv'
  BY <1>5, <1>7, <1>8 DEF StreamInv, OneBrowser
<1>10. ConfigOnItsWay'
  BY <1>5 DEF ConfigOnItsWay
<1>11. DOMAIN tell' = {"config", "other"} /\ (\A e \in {"config", "other"} : tell'[e] \in Nat)
  BY <1>3 DEF Quiet
<1> QED BY <1>2, <1>9, <1>10, <1>11 DEF WebInv

\* The inductive invariant of settings, stream and requests.
THEOREM WebInvariant == FairSpec => []WebInv
<1>1. Init => WebInv
  <2> SUFFICES ASSUME Init PROVE WebInv
    OBVIOUS
  <2>1. SettingsInv
    BY SettingsStart DEF Init
  <2>2. /\ slot = 0 /\ seq = 0 /\ cache = <<>> /\ conn = [c \in Conns |-> NoConn] /\ tell = Quiet
        /\ view = [last |-> 0, settled |-> {}, config |-> <<>>, stale |-> FALSE]
    BY DEF Init, StreamInit
  <2>3. NoConn \in Requests /\ ~NoConn.live
    BY DEF NoConn, Requests
  <2>4. conn \in [Conns -> Requests] /\ \A c \in Conns : ~conn[c].live
    BY <2>2, <2>3
  <2>5. cache \in Seq(Entries) /\ Len(cache) = 0
    BY <2>2
  <2>6. StreamTypeOK /\ view.last <= seq
    BY <2>2, <2>4, <2>5 DEF StreamTypeOK
  <2>7. InOrder(cache, seq) /\ DropsApplied
    BY <2>5 DEF InOrder, DropsApplied
  <2>8. StreamInv /\ ConfigOnItsWay
    BY <2>4, <2>6, <2>7 DEF StreamInv, OneBrowser, ConfigOnItsWay
  <2>9. DOMAIN tell = {"config", "other"} /\ (\A e \in {"config", "other"} : tell[e] \in Nat)
    BY <2>2 DEF Quiet
  <2> QED BY <2>1, <2>8, <2>9 DEF WebInv
<1>2. WebInv /\ [Next]_vars => WebInv'
  <2> SUFFICES ASSUME WebInv, [Next]_vars PROVE WebInv'
    OBVIOUS
  <2>1. CASE UpdateSettings \/ UpdatePage \/ UpdateServicePage
    <3>1. PICK keys \in SUBSET Keys : Post(keys, "config")
      BY <2>1 DEF UpdateSettings, UpdatePage, UpdateServicePage, ApplySettings
    <3> QED BY <3>1, PostInv
  <2>2. CASE ToggleServices
    <3>1. PICK keys \in SUBSET Toggles : Post(keys, "other")
      BY <2>2 DEF ToggleServices
    <3> QED BY <3>1, PostInv, WebUiAssumption
  <2>3. CASE \E event \in DOMAIN tell : Tell(event)
    BY <2>3, TellInv DEF WebInv
  <2>4. CASE \/ LoopStep /\ UNCHANGED unset
             \/ \E c \in Conns :
                  /\ RegisterClient(c) \/ Disconnect(c) \/ HandlerStep(c, Config) \/ InitialStep(c)
                  /\ UNCHANGED unset
    BY <2>4, StreamSideInv
  <2>5. CASE Restart
    BY <2>5, RestartInv
  <2>6. CASE UNCHANGED vars
    <3>1. /\ top' = top /\ layer' = layer /\ rows' = rows /\ flags' = flags /\ effective' = effective
          /\ tell' = tell /\ slot' = slot /\ seq' = seq /\ cache' = cache /\ conn' = conn /\ view' = view
      BY <2>6 DEF vars, settingVars, streamVars
    <3>2. SettingsInv' /\ Config' = Config
      BY <3>1 DEF WebInv, SettingsInv, Recompute, Config, Restrict
    <3>3. StreamInv'
      BY <3>1 DEF WebInv, StreamInv, StreamTypeOK, OneBrowser, DropsApplied
    <3> QED BY <3>1, <3>2, <3>3 DEF WebInv, ConfigOnItsWay
  <2> QED BY <2>1, <2>2, <2>3, <2>4, <2>5, <2>6 DEF Next, Step
<1> QED BY <1>1, <1>2, PTL DEF FairSpec

\* Every start leaves each setting whose row was written as the operator means it, whatever
\* was set, restarted, lost and half applied before (NewService, SetMany, recompute).
THEOREM SettingsSurviveStarts == FairSpec => SettingsSurvive
<1>1. WebInv /\ [Next]_vars => [Restart => \A k \in Keys : StartKeeps(k, flags')]_vars
  <2> SUFFICES ASSUME WebInv, Restart, NEW k \in Keys PROVE StartKeeps(k, flags')
    OBVIOUS
  <2>1. PICK given \in CommandLines : NewService(given)
    BY DEF Restart
  <2>2. flags' = given
    BY <2>1 DEF NewService
  <2>3. StartKeeps(k, given)
    BY <2>1, StartSurvives DEF WebInv
  <2> QED BY <2>2, <2>3 DEF StartKeeps
<1> QED BY <1>1, WebInvariant, PTL DEF FairSpec, SettingsSurvive

\* A browser misses only events its channel had no room for (broadcastForSlot,
\* RegisterClient, the numbers' seed, lastSeqRef).
THEOREM EventsReach == FairSpec => []EventsReachBrowser
<1>1. WebInv => EventsReachBrowser
  <2> SUFFICES ASSUME WebInv, NEW c \in Conns, conn[c].live, NEW i \in DOMAIN cache
               PROVE  \/ cache[i].seq \in view.settled
                      \/ \E j \in DOMAIN conn[c].ch : conn[c].ch[j].seq = cache[i].seq
    BY DEF EventsReachBrowser
  <2>1. StreamInv /\ cache \in Seq(Entries)
    BY DEF WebInv, StreamInv, StreamTypeOK
  <2>2. Reaches(cache, conn[c].ch, view.settled) /\ conn[c].ch \in Seq(Events)
    BY <2>1, LiveRequest
  <2>3. DOMAIN cache = 1 .. Len(cache) /\ DOMAIN conn[c].ch = 1 .. Len(conn[c].ch)
    BY <2>1, <2>2
  <2> QED BY <2>2, <2>3 DEF Reaches
<1> QED BY <1>1, WebInvariant, PTL

\* A browser that has read all it was sent shows the config in force (BroadcastConfigUpdate,
\* SendInitialState).
THEOREM ConfigIsShown == FairSpec => []ConfigShown
<1>1. WebInv => ConfigShown
  <2> SUFFICES ASSUME WebInv, NEW c \in Conns, conn[c].live, conn[c].ch = <<>>, conn[c].todo = <<>>,
                      ~view.stale, tell["config"] = 0
               PROVE  view.config = Config
    BY DEF ConfigShown
  <2>1. Len(conn[c].ch) = 0 /\ Len(conn[c].todo) = 0
    OBVIOUS
  <2> QED BY <2>1 DEF WebInv, ConfigOnItsWay
<1> QED BY <1>1, WebInvariant, PTL

=============================================================================
