---------------------------- MODULE Registration ----------------------------
(***************************************************************************)
(* How the p2p bidder knows that its builder may bid: the registration     *)
(* state of pkg/p2p_bidder/service.go, refreshed by the bidder's loop on   *)
(* every epoch event, and the lifecycle manager's registration attempts    *)
(* (pkg/lifecycle/manager.go), which set it through callbacks.  Several    *)
(* goroutines attempt at a time: the manager, and the requests of the web  *)
(* UI.                                                                     *)
(*                                                                         *)
(*   fork           the Gloas fork is active by the clock                  *)
(*   snapshot       the chain service's EpochStats, as far as they matter  *)
(*   epochPending   the loop's epoch subscription holds an event           *)
(*   state          registrationState                                      *)
(*   index          the builder index bids are signed with (bidCreator's)  *)
(*   refresh        the RefreshRegistrationState under way                 *)
(*   enabled        the lifecycle manager is switched on.  Without a       *)
(*                  wallet there is none: it never is, and nobody asks     *)
(*   done           registrationDone                                       *)
(*   attempt        the registration of each caller: where it is, and the  *)
(*                  index or the state it found                            *)
(***************************************************************************)
EXTENDS Naturals

CONSTANTS
    Manager,        \* the lifecycle manager's goroutine, which retries
    Requests,       \* goroutines of web UI requests, which do not
    Indices,        \* builder indices the registry can give out
    MaxFinalized,   \* bound: finality stops here
    FarFuture,      \* FarFutureEpoch
    NoEntry         \* the pubkey is not in the registry

Callers == {Manager} \cup Requests

\* BuilderInfo: withdrawable is FarFuture until an exit is initiated.
Entries ==
    [index : Indices, deposit : Nat, withdrawable : Nat \cup {FarFuture}]

ASSUME RegistrationAssumption ==
    /\ Manager \notin Requests
    /\ Indices \subseteq Nat \ {0}
    /\ MaxFinalized \in Nat
    /\ FarFuture \notin Nat
    /\ NoEntry \notin Entries

VARIABLES fork, snapshot, epochPending, state, index, refresh, enabled, done, attempt

vars == <<fork, snapshot, epochPending, state, index, refresh, enabled, done, attempt>>

States == { "pending", "registered", "waiting_gloas", "pending_finalization",
            "exiting", "exited", "unregistered" }

NoRefresh == [from |-> "none", to |-> "none"]
At(pc, x) == [pc |-> pc, found |-> x]

RegistrationTypeOK ==
    /\ fork \in BOOLEAN
    /\ snapshot \in [gloas : BOOLEAN, finalized : 0 .. MaxFinalized, entry : Entries \cup {NoEntry}]
    /\ epochPending \in BOOLEAN
    /\ state \in States
    /\ index \in Indices \cup {0}
    /\ refresh \in [from : States, to : States] \cup {NoRefresh}
    /\ enabled \in BOOLEAN /\ done \in BOOLEAN
    /\ attempt \in [Callers -> [pc : {"idle", "onboard", "early", "earlyWait", "gloas", "check", "announce",
                                      "deposit", "wait", "index", "state", "store", "over"},
                                found : Indices \cup {0} \cup States]]

-----------------------------------------------------------------------------
(* What the code reads from the chain.                                     *)

HasExited(info) == info # NoEntry /\ info.withdrawable # FarFuture

\* computeRegistrationState.
ComputeState(info, finalized) ==
    CASE HasExited(info) /\ info.withdrawable <= finalized -> "exited"
      [] HasExited(info) /\ info.withdrawable > finalized -> "exiting"
      [] ~HasExited(info) /\ info.deposit < finalized -> "registered"
      [] OTHER -> "pending_finalization"

Computed == ComputeState(snapshot.entry, snapshot.finalized)

\* Start, with whatever the chain's state is.  Index 0 is also the zero value.
Init ==
    /\ fork \in BOOLEAN
    /\ snapshot \in [gloas : {fork}, finalized : {0},
                     entry : {NoEntry} \cup [index : Indices, deposit : {0}, withdrawable : {FarFuture}]]
    /\ snapshot.entry # NoEntry => fork
    /\ epochPending = FALSE
    /\ state = IF ~fork THEN "waiting_gloas"
               ELSE IF snapshot.entry = NoEntry THEN "unregistered" ELSE Computed
    /\ index = IF snapshot.entry = NoEntry THEN 0 ELSE snapshot.entry.index
    /\ refresh = NoRefresh
    /\ enabled \in BOOLEAN /\ done = FALSE
    /\ attempt = [c \in Callers |-> At("idle", 0)]

-----------------------------------------------------------------------------
(* The chain, external: deposits are processed (also those of the deposit  *)
(* command, another process), builders exit, and an exited entry's index   *)
(* is given to somebody else.                                              *)

ForkActivates ==
    /\ ~fork /\ fork' = TRUE
    /\ UNCHANGED <<snapshot, epochPending, state, index, refresh, enabled, done, attempt>>

EntryAfter(info, f) ==
    IF info = NoEntry
    THEN {info} \cup [index : Indices, deposit : {f + 1}, withdrawable : {FarFuture}]
    ELSE {info} \cup (IF ~HasExited(info) THEN {[info EXCEPT !.withdrawable = f + 1]} ELSE {})
                \cup (IF ComputeState(info, f) = "exited" THEN {NoEntry} ELSE {})

\* The next state the node returns.
Fetch(s) ==
    \E f \in {s.finalized, s.finalized + 1} \cap (0 .. MaxFinalized) :
    \E e \in IF fork THEN EntryAfter(s.entry, f) ELSE {NoEntry} :
        snapshot' = [gloas |-> fork, finalized |-> f, entry |-> e]

\* handleHeadEvent of the chain service: a new epoch's state, then its event.
NewEpoch ==
    /\ Fetch(snapshot)
    /\ epochPending' = TRUE
    /\ UNCHANGED <<fork, state, index, refresh, enabled, done, attempt>>

-----------------------------------------------------------------------------
(* The bidder's loop.                                                      *)

\* Mutant of Refreshed: a pending deposit is left to the lifecycle manager.
RefreshedUnlessPending ==
    IF state = "pending" THEN state
    ELSE IF snapshot.entry # NoEntry THEN Computed ELSE "unregistered"

\* The state RefreshRegistrationState moves to.
Refreshed ==
    IF snapshot.entry # NoEntry THEN Computed
    ELSE IF state \in {"pending", "unregistered"} THEN state ELSE "unregistered"

\* RefreshRegistrationState loads the state and the builder ...
RefreshReads ==
    /\ epochPending /\ refresh = NoRefresh
    /\ epochPending' = FALSE
    /\ refresh' = IF state = "waiting_gloas" THEN NoRefresh ELSE [from |-> state, to |-> Refreshed]
    /\ UNCHANGED <<fork, snapshot, state, index, enabled, done, attempt>>

\* ... and stores what it computed, if that differs from what it loaded.
RefreshStores ==
    /\ refresh # NoRefresh
    /\ state' = IF refresh.from = refresh.to THEN state ELSE refresh.to
    /\ refresh' = NoRefresh
    /\ UNCHANGED <<fork, snapshot, epochPending, index, enabled, done, attempt>>

-----------------------------------------------------------------------------
(* The lifecycle manager, up to its registration.                          *)

chainAndLoop == <<fork, snapshot, epochPending, refresh, enabled>>

Goes(c, pc, x) == attempt' = [attempt EXCEPT ![c] = At(pc, x)]

\* SetEnabled, from the web UI.
SetEnabled ==
    /\ enabled' = ~enabled
    /\ UNCHANGED <<fork, snapshot, epochPending, state, index, refresh, done, attempt>>

\* waitForEnabled.
WaitForEnabled ==
    /\ attempt[Manager].pc = "idle" /\ enabled
    /\ Goes(Manager, "onboard", 0)
    /\ UNCHANGED <<chainAndLoop, state, index, done>>

\* maybeEarlyOnboard: it is over when the builder is registered, at the fork or shortly
\* before it; until then the deposit is made, which depositPendingCallback announces, or
\* a deposit in the queue is waited for.
MaybeEarlyOnboard ==
    /\ attempt[Manager].pc = "onboard" /\ enabled
    /\ \/ snapshot.entry # NoEntry /\ Goes(Manager, "index", snapshot.entry.index) /\ UNCHANGED state
       \/ snapshot.entry = NoEntry /\ Goes(Manager, "gloas", 0) /\ UNCHANGED state
       \/ ~fork /\ Goes(Manager, "early", 0) /\ state' = "pending"
       \/ ~fork /\ Goes(Manager, "earlyWait", 0) /\ UNCHANGED state
    /\ UNCHANGED <<chainAndLoop, index, done>>

CreateEarlyDeposit ==
    /\ attempt[Manager].pc = "early"
    /\ \E pc \in {"onboard", "earlyWait"} : Goes(Manager, pc, 0)
    /\ UNCHANGED <<chainAndLoop, state, index, done>>

\* waitForGloasState.
WaitForGloasState ==
    /\ attempt[Manager].pc = "gloas" /\ snapshot.gloas
    /\ Goes(Manager, IF done THEN "over" ELSE "check", 0)
    /\ UNCHANGED <<chainAndLoop, state, index, done>>

-----------------------------------------------------------------------------
(* EnsureBuilderRegistered.                                                *)

\* A request of the web UI comes at any time.
Request(c) ==
    /\ attempt[c].pc = "idle"
    /\ Goes(c, "check", 0)
    /\ UNCHANGED <<chainAndLoop, state, index, done>>

Check(c) ==
    /\ attempt[c].pc = "check"
    /\ IF snapshot.entry = NoEntry THEN Goes(c, "announce", 0) ELSE Goes(c, "index", snapshot.entry.index)
    /\ UNCHANGED <<chainAndLoop, state, index, done>>

\* depositPendingCallback, before the deposit is tried.
SetRegistrationPending(c) ==
    /\ attempt[c].pc = "announce"
    /\ state' = "pending"
    /\ Goes(c, "deposit", 0)
    /\ UNCHANGED <<chainAndLoop, index, done>>

\* A failed attempt: the manager tries again after 30 seconds.
Fails(c) == Goes(c, IF c = Manager THEN "check" ELSE "idle", 0)

\* CreateDeposit: refused for an exited builder; it can always fail.
CreateDeposit(c) ==
    /\ attempt[c].pc = "deposit"
    /\ \/ ~HasExited(snapshot.entry) /\ Goes(c, "wait", 0)
       \/ Fails(c)
    /\ UNCHANGED <<chainAndLoop, state, index, done>>

\* WaitForRegistration: every slot the state is fetched anew.
WaitTick(c) ==
    /\ attempt[c].pc \in {"wait", "earlyWait"}
    /\ Fetch(snapshot)
    /\ IF snapshot'.entry = NoEntry THEN UNCHANGED attempt ELSE Goes(c, "index", snapshot'.entry.index)
    /\ UNCHANGED <<fork, epochPending, state, index, refresh, enabled, done>>

WaitTimeout(c) ==
    /\ \/ attempt[c].pc = "wait" /\ Fails(c)
       \/ attempt[c].pc = "earlyWait" /\ Goes(c, "gloas", 0)
    /\ UNCHANGED <<chainAndLoop, state, index, done>>

\* onRegistered and SetBuilderRegistered: the index first ...
SetIndex(c) ==
    /\ attempt[c].pc = "index"
    /\ done' = TRUE
    /\ index' = attempt[c].found
    /\ Goes(c, "state", 0)
    /\ UNCHANGED <<chainAndLoop, state>>

StateOf(s) ==
    IF s.entry = NoEntry THEN "pending_finalization" ELSE ComputeState(s.entry, s.finalized)

\* ... then the state, computed from the builder as it is by now ...
ReadState(c) ==
    /\ attempt[c].pc = "state"
    /\ Goes(c, "store", StateOf(snapshot))
    /\ UNCHANGED <<chainAndLoop, state, index, done>>

\* ... and stored, whatever has been stored since.
SetState(c) ==
    /\ attempt[c].pc = "store"
    /\ state' = attempt[c].found
    /\ Goes(c, IF c = Manager THEN "over" ELSE "idle", 0)
    /\ UNCHANGED <<chainAndLoop, index, done>>

Ensure(c) ==
    \/ Check(c)
    \/ SetRegistrationPending(c)
    \/ CreateDeposit(c)
    \/ WaitTick(c) \/ WaitTimeout(c)
    \/ SetIndex(c) \/ ReadState(c) \/ SetState(c)

ManagerStep == WaitForEnabled \/ MaybeEarlyOnboard \/ CreateEarlyDeposit \/ WaitForGloasState

Next ==
    \/ ForkActivates \/ NewEpoch
    \/ RefreshReads \/ RefreshStores
    \/ SetEnabled \/ ManagerStep
    \/ \E c \in Requests : Request(c)
    \/ \E c \in Callers : Ensure(c)

Spec == Init /\ [][Next]_vars

\* Epochs go on, goroutines run; nobody has to switch the manager on or ask the web UI
\* for anything.
FairSpec ==
    /\ Spec
    /\ WF_vars(ForkActivates) /\ WF_vars(NewEpoch)
    /\ WF_vars(RefreshReads) /\ WF_vars(RefreshStores)
    /\ WF_vars(ManagerStep)
    /\ \A c \in Callers : WF_vars(Ensure(c))

-----------------------------------------------------------------------------
(* Properties.                                                             *)

\* What the chain's view of the builder, once it no longer changes, makes of the
\* registration state.
Absent == {"pending", "unregistered"}
Settled == IF snapshot.entry = NoEntry THEN Absent ELSE {Computed}

\* However the callbacks of concurrent registration attempts, stale refreshes and epoch
\* events interleave: the state that gates bidding ends up as the chain has it, after a
\* deposit, its finalization, an exit and a removal (RefreshRegistrationState,
\* SetBuilderRegistered, SetRegistrationPending).  A bidder that started before the fork
\* leaves waiting_gloas by the lifecycle manager only: its state ends up so when the
\* manager is switched on for good, or a registration was ever tried.
StateSettles ==
    <>[][Settled' = Settled]_vars /\ (<>[]enabled \/ <>(state # "waiting_gloas"))
        => <>[](state \in Settled)

=============================================================================
