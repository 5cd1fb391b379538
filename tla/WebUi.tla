------------------------------- MODULE WebUi -------------------------------
(***************************************************************************)
(* The web UI's process: requests that change settings (applySettings of   *)
(* pkg/webui/handlers/api/audit.go, ToggleServices of api.go) and the      *)
(* event stream that tells the browsers.                                   *)
(*                                                                         *)
(*   tell   how many requests have been applied and have yet to announce   *)
(*          what they changed, by the event they send                      *)
(***************************************************************************)
EXTENDS Settings, EventStream

CONSTANTS
    Toggles,        \* the keys of ToggleServices
    CommandLines,   \* the flags the operator may start the program with
    MaxPosts,       \* bound: requests that have yet to announce
    MaxMixed        \* bound: once something was set, events, all of slot 0

ASSUME WebUiAssumption ==
    /\ Toggles \subseteq Keys /\ {MaxPosts, MaxMixed} \subseteq Nat
    /\ CommandLines \subseteq [Keys -> Values \cup {None}]

VARIABLE tell

vars == <<settingVars, streamVars, tell>>

Quiet == [event \in {"config", "other"} |-> 0]

Init ==
    /\ \E given \in CommandLines : SettingsInit(given)
    /\ StreamInit
    /\ tell = Quiet

\* A request with some settings, by the event it announces.
Post(keys, event) ==
    /\ tell["config"] + tell["other"] < MaxPosts
    /\ \E updates \in [keys -> Values] : SetMany(updates)
    /\ tell' = [tell EXCEPT ![event] = @ + 1]
    /\ UNCHANGED streamVars

\* Mutant of ApplySettings: what changed is not announced as config.
ApplySettingsQuietly(keys) == keys # {} /\ Post(keys, "other")

\* An empty batch is done at once.
ApplySettings(keys) == keys # {} /\ Post(keys, "config")

\* Any keys of the registry, the toggles too.
UpdateSettings == \E keys \in SUBSET Keys : ApplySettings(keys)

\* The pages for the schedule and for the bidder, ...
UpdatePage == \E keys \in SUBSET (Keys \ Toggles) : ApplySettings(keys)

\* ... and those for the builder, the Builder API and the lifecycle.
UpdateServicePage == \E keys \in SUBSET (Keys \ Toggles) : ApplySettings(keys)

\* The status is announced even when nothing is switched: then a request is no more than
\* SendServiceStatus.
ToggleServices == \E keys \in (SUBSET Toggles) \ {{}} : Post(keys, "other")

\* BroadcastConfigUpdate and BroadcastServiceStatus, once the settings' lock is free.
Tell(event) ==
    /\ tell[event] > 0
    /\ Broadcast(event)
    /\ tell' = [tell EXCEPT ![event] = @ - 1]
    /\ UNCHANGED settingVars

Restart ==
    /\ \E given \in CommandLines : NewService(given)
    /\ StreamRestart
    /\ tell' = Quiet

\* The config as browsers show it; the toggles have events of their own.
Config == Restrict(effective, Keys \ Toggles)

unset == <<settingVars, tell>>

Step ==
    \/ UpdateSettings \/ UpdatePage \/ UpdateServicePage \/ ToggleServices
    \/ \E event \in DOMAIN tell : Tell(event)
    \/ LoopStep /\ UNCHANGED unset
    \/ \E c \in Conns :
         /\ RegisterClient(c) \/ Disconnect(c) \/ HandlerStep(c, Config) \/ InitialStep(c)
         /\ UNCHANGED unset
    \/ Restart

Next == Step /\ (top' = 0 \/ (slot' = 0 /\ seq' <= MaxMixed))

\* Handlers and their goroutines run.
FairSpec ==
    /\ Init /\ [][Next]_vars
    /\ \A c \in Conns :
         /\ WF_vars(HandlerStep(c, Config) /\ UNCHANGED unset)
         /\ WF_vars(Leave(c) /\ UNCHANGED unset)
         /\ WF_vars(InitialStep(c) /\ UNCHANGED unset)

-----------------------------------------------------------------------------
(* Properties.                                                             *)

\* Every start treats every setting as StartKeeps says.
SettingsSurvive == [][Restart => \A k \in Keys : StartKeeps(k, flags')]_vars

\* A browser that has read all it was sent shows the config in force, whatever requests,
\* broadcasts and the initial state overlapped (BroadcastConfigUpdate, SendInitialState).
ConfigShown ==
    \A c \in Conns :
        /\ conn[c].live /\ conn[c].ch = <<>> /\ conn[c].todo = <<>>
        /\ ~view.stale /\ tell["config"] = 0
        => view.config = Config
=============================================================================
