---------------------------- MODULE ModLifecycle ----------------------------
(***************************************************************************)
(* The life of the mods (loader/lifecycle): the state machine of the       *)
(* ModManager, with ModManagerWiring as its entry points and terminators,  *)
(* on top of the chain registry, the SDK's hook registry and the module    *)
(* loader.  This is the chain-aware path, the one the runtime takes.       *)
(*                                                                         *)
(* Everything runs on the one early-load thread.  An operation that calls  *)
(* out several times is a job: each call is a step, may fail where the     *)
(* code provides for it, and nothing else happens until the job is over.   *)
(*                                                                         *)
(* A link is a registration of the SDK's hook registry; a module registers *)
(* its links when it is first loaded.                                      *)
(***************************************************************************)
EXTENDS HookChainRegistry, SequencesExt

CONSTANT Order   \* LoadPlan.order

ASSUME OrderAssumption ==
  /\ Order \in Seq(Planned)
  /\ IsInjective(Order)
  /\ ToSet(Order) = Planned

VARIABLES
  state,       \* [Planned -> state in the ModManager]
  loaded,      \* mods whose ModRuntimeState says loaded
  mapped,      \* mods whose code is in memory
  registered,  \* links in the SDK's hook registry
  window,      \* [Planned -> links of the recorded window of epoch]
  recorded,    \* mods whose window is recorded
  job          \* the operation under way

lifeVars == <<state, loaded, mapped, registered, window, recorded, job>>
lifecycleVars == <<vars, lifeVars>>

ModState == {"Unknown", "Installed", "Enabled", "Disabled", "Removed"}

NoJob == [kind |-> "none"]

Job ==
  {NoJob}
    \cup [kind : {"load"}, mod : Planned]
    \cup [kind : {"entry"}, mod : Planned, start : SUBSET Link]
    \cup [kind : {"install"}, mod : Planned, todo : SUBSET Link]
    \cup [kind : {"rollback"}, mod : Planned]
    \cup [kind : {"teardown"}, terminate : Seq(Planned), unload : Seq(Planned)]

LifecycleTypeOK ==
  /\ TypeOK
  /\ state \in [Planned -> ModState]
  /\ loaded \subseteq Planned
  /\ mapped \subseteq Planned
  /\ registered \subseteq Link
  /\ window \in [Planned -> SUBSET Link]
  /\ recorded \subseteq Planned
  /\ job \in Job

(* The links of the loader's own mods are registered at static init. *)
LifecycleInit ==
  /\ Init
  /\ state = [m \in Planned |-> "Unknown"]
  /\ loaded = {}
  /\ mapped = {}
  /\ registered = {l \in Link : OwnerOf[l] \notin Planned}
  /\ window = [m \in Planned |-> {}]
  /\ recorded = {}
  /\ job = NoJob

IsAllowed(from, to) ==
  \/ from = "Installed" /\ to \in {"Enabled", "Removed"}
  \/ from = "Enabled"   /\ to = "Disabled"
  \/ from = "Disabled"  /\ to \in {"Enabled", "Removed"}

-----------------------------------------------------------------------------
(* Before the pipeline runs *)

(* The runtime puts the links of the internal demo into the chains.        *)
InsertBuiltin(l) ==
  /\ \A m \in Planned : state[m] = "Unknown"
  /\ OwnerOf[l] \notin Planned
  /\ InstallFirst(l) \/ InsertSubsequent(l) \/ InstallFails(l) \/ RejectInsert(l)
  /\ UNCHANGED lifeVars

RegisterMod(m) ==
  /\ job = NoJob
  /\ state[m] = "Unknown"
  /\ state' = [state EXCEPT ![m] = "Installed"]
  /\ UNCHANGED <<vars, loaded, mapped, registered, window, recorded, job>>

-----------------------------------------------------------------------------
(* enable: the entry point the ModManager calls is onEnable *)

BeginEnable(m) ==
  /\ job = NoJob
  /\ IsAllowed(state[m], "Enabled")
  /\ job' = [kind |-> "load", mod |-> m]
  /\ UNCHANGED <<vars, state, loaded, mapped, registered, window, recorded>>

(* The entry point has failed: the mod goes to Disabled. *)
FailTo(m) == state' = [state EXCEPT ![m] = "Disabled"] /\ job' = NoJob

(* A module that is loaded already, whether or not its window was          *)
(* recorded, is not loaded again.                                          *)
UseLoaded ==
  /\ job.kind = "load"
  /\ job.mod \in loaded
  /\ job' = [kind |-> "entry", mod |-> job.mod, start |-> registered]
  /\ UNCHANGED <<vars, state, loaded, mapped, registered, window, recorded>>

LoadModule ==
  /\ job.kind = "load"
  /\ job.mod \notin loaded
  /\ loaded' = loaded \cup {job.mod}
  /\ mapped' = mapped \cup {job.mod}
  /\ registered' = registered \cup LinksOf(job.mod)
  /\ job' = [kind |-> "entry", mod |-> job.mod, start |-> registered]
  /\ UNCHANGED <<vars, state, window, recorded>>

LoadFails ==
  /\ job.kind = "load"
  /\ job.mod \notin loaded
  /\ FailTo(job.mod)
  /\ UNCHANGED <<vars, loaded, mapped, registered, window, recorded>>

EntryUnresolved ==
  /\ job.kind = "entry"
  /\ FailTo(job.mod)
  /\ UNCHANGED <<vars, loaded, mapped, registered, window, recorded>>

(* The mod's entry point reports an error or throws. *)
EntryFails ==
  /\ job.kind = "entry"
  /\ job' = [kind |-> "rollback", mod |-> job.mod]
  /\ UNCHANGED <<vars, state, loaded, mapped, registered, window, recorded>>

(* The window of the first successful entry is kept for every later one.   *)
WindowOf(m, start) == IF m \in recorded THEN window[m] ELSE registered \ start

EntrySucceeds ==
  LET w == WindowOf(job.mod, job.start)
  IN  /\ job.kind = "entry"
      /\ window' = [window EXCEPT ![job.mod] = w]
      /\ recorded' = recorded \cup {job.mod}
      /\ job' = [kind |-> "install", mod |-> job.mod, todo |-> w \cap Resolved]
      /\ UNCHANGED <<vars, state, loaded, mapped, registered>>

(* installWindow goes through the window in the order of the registry.     *)
NextToInstall(l) ==
  /\ job.kind = "install"
  /\ l \in job.todo
  /\ \A k \in job.todo : l <= k

(* Where the backend is not available the loop goes on without the hook.   *)
InstallLink(l) ==
  /\ NextToInstall(l)
  /\ InstallFirst(l) \/ InsertSubsequent(l) \/ RejectInsert(l)
  /\ job' = [job EXCEPT !.todo = @ \ {l}]
  /\ UNCHANGED <<state, loaded, mapped, registered, window, recorded>>

(* Slip: what the window has installed so far is kept. *)
AbortWithoutRollback(l) ==
  /\ NextToInstall(l)
  /\ InstallFails(l)
  /\ FailTo(job.mod)
  /\ UNCHANGED <<loaded, mapped, registered, window, recorded>>

(* Any other failure ends the transaction. *)
AbortInstall(l) ==
  /\ NextToInstall(l)
  /\ InstallFails(l)
  /\ job' = [kind |-> "rollback", mod |-> job.mod]
  /\ UNCHANGED <<state, loaded, mapped, registered, window, recorded>>

EnableSucceeds ==
  /\ job.kind = "install"
  /\ job.todo = {}
  /\ state' = [state EXCEPT ![job.mod] = "Enabled"]
  /\ job' = NoJob
  /\ UNCHANGED <<vars, loaded, mapped, registered, window, recorded>>

(* rollbackModHooks, then the ModManager takes the failure. *)
Rollback ==
  /\ job.kind = "rollback"
  /\ RemoveOwner(job.mod)
  /\ FailTo(job.mod)
  /\ UNCHANGED <<loaded, mapped, registered, window, recorded>>

-----------------------------------------------------------------------------
(* disable, remove, teardown *)

(* Slip: only the ModManager is told, as ModManagerUI does. *)
DisableInManager(m) ==
  /\ job = NoJob
  /\ IsAllowed(state[m], "Disabled")
  /\ state' = [state EXCEPT ![m] = "Disabled"]
  /\ UNCHANGED <<vars, loaded, mapped, registered, window, recorded, job>>

(* The module stays loaded and its window recorded. *)
Disable(m) ==
  /\ job = NoJob
  /\ IsAllowed(state[m], "Disabled")
  /\ state' = [state EXCEPT ![m] = "Disabled"]
  /\ RemoveOwner(m)
  /\ UNCHANGED <<loaded, mapped, registered, window, recorded, job>>

RemoveMod(m) ==
  /\ job = NoJob
  /\ IsAllowed(state[m], "Removed")
  /\ state' = [state EXCEPT ![m] = "Removed"]
  /\ UNCHANGED <<vars, loaded, mapped, registered, window, recorded, job>>

(* Slip: the loop ends before the first mod of the order. *)
EnabledButFirst ==
  LET from[n \in 0 .. Len(Order)] ==
        IF n <= 1 THEN <<>>
        ELSE IF state[Order[n]] = "Enabled" THEN <<Order[n]>> \o from[n - 1] ELSE from[n - 1]
  IN  from[Len(Order)]

(* The enabled mods, from the last of the order to the first. *)
EnabledInReverse ==
  LET from[n \in 0 .. Len(Order)] ==
        IF n = 0 THEN <<>>
        ELSE IF state[Order[n]] = "Enabled" THEN <<Order[n]>> \o from[n - 1] ELSE from[n - 1]
  IN  from[Len(Order)]

StartTeardown ==
  /\ job = NoJob
  /\ job' = [kind |-> "teardown", terminate |-> EnabledInReverse, unload |-> EnabledInReverse]
  /\ UNCHANGED <<vars, state, loaded, mapped, registered, window, recorded>>

(* First shutdown calls every terminator; the states stay as they are.     *)
Terminate ==
  /\ job.kind = "teardown"
  /\ job.terminate # <<>>
  /\ RemoveOwner(Head(job.terminate))
  /\ job' = [job EXCEPT !.terminate = Tail(@)]
  /\ UNCHANGED <<state, loaded, mapped, registered, window, recorded>>

(* Then each mod's hooks are removed once more, and its module is unloaded *)
(* and forgotten even if dlclose fails.                                    *)
Unload ==
  LET m == Head(job.unload)
  IN  /\ job.kind = "teardown"
      /\ job.terminate = <<>>
      /\ job.unload # <<>>
      /\ RemoveOwner(m)
      /\ loaded' = loaded \ {m}
      /\ mapped' \in {mapped, mapped \ {m}}
      /\ recorded' = recorded \ {m}
      /\ state' = [state EXCEPT ![m] = "Removed"]
      /\ job' = [job EXCEPT !.unload = Tail(@)]
      /\ UNCHANGED <<registered, window>>

EndTeardown ==
  /\ job.kind = "teardown"
  /\ job.terminate = <<>>
  /\ job.unload = <<>>
  /\ job' = NoJob
  /\ UNCHANGED <<vars, state, loaded, mapped, registered, window, recorded>>

JobStep ==
  \/ UseLoaded \/ LoadModule \/ LoadFails
  \/ EntryUnresolved \/ EntryFails \/ EntrySucceeds
  \/ \E l \in Link : InstallLink(l) \/ AbortInstall(l)
  \/ EnableSucceeds \/ Rollback
  \/ Terminate \/ Unload \/ EndTeardown

LifecycleNext ==
  \/ \E l \in Link : InsertBuiltin(l)
  \/ \E m \in Planned : RegisterMod(m) \/ BeginEnable(m) \/ Disable(m) \/ RemoveMod(m)
  \/ StartTeardown
  \/ JobStep

LifecycleSpec == LifecycleInit /\ [][LifecycleNext]_lifecycleVars
-----------------------------------------------------------------------------
(* Properties *)

(* The links of l's mod that are in chains. *)
LinksInChains(m) == LinksOf(m) \cap UNION {chain[t] : t \in Target}

(* Whatever fails on the way, between two operations only Enabled mods     *)
(* have links in chains or in the ledger: a failed enable is undone as a   *)
(* whole, a disabled mod has none (Req 6.2, 7.3, 9.5).                     *)
OnlyEnabledModsAreHooked ==
  job = NoJob =>
    \A m \in Planned :
      state[m] # "Enabled" => LinksInChains(m) = {} /\ attributed \cap LinksOf(m) = {}

(* However often a mod was enabled, disabled, failed and enabled again, an *)
(* Enabled mod has exactly the links of its recorded window that are       *)
(* resolved, and the window holds no link of another mod (Req 5.8, 7.5).   *)
WindowIsInstalled ==
  job = NoJob /\ Available =>
    \A m \in Planned :
      /\ window[m] \subseteq LinksOf(m)
      /\ state[m] = "Enabled" => LinksInChains(m) = window[m] \cap Resolved

(* The window that the first successful entry recorded is the one every    *)
(* later enable installs, until the module is unloaded: with               *)
(* WindowIsInstalled, a mod enabled again has the hooks it had (Req 7.5).  *)
WindowIsKept ==
  [][\A m \in recorded : m \in recorded' => window'[m] = window[m]]_lifecycleVars

(* A link is never inserted into a chain that holds it already: nothing in *)
(* insertLink looks for that, and the link would come to forward to itself *)
(* and the call never to end.                                              *)
InsertsNoLinkTwice ==
  job.kind = "install" => \A l \in job.todo : l \notin chain[TargetOf[l]]

(* The links a call of t can run into. *)
Reached(t) ==
  {l \in LinksOn(t) : l \in chain[t] \/ (patch[t] = "thunk" /\ head[t] = l)}

(* No call of a function that has a chain gets into a module that is not   *)
(* in memory, whatever mods left the chain before (Req 8.7).               *)
ChainsAreMapped ==
  \A t \in Target :
    chain[t] # {} =>
      \A l \in Reached(t) : OwnerOf[l] \in Planned => OwnerOf[l] \in mapped

(* When a teardown is over no mod of the plan is Enabled, has a link in a  *)
(* chain or a hook in the ledger, even if hooks could not be removed       *)
(* (Req 8.1, 8.5, 8.6).                                                    *)
TeardownIsComplete ==
  [][job.kind = "teardown" /\ job' = NoJob =>
       \A m \in Planned :
         /\ state'[m] # "Enabled"
         /\ LinksInChains(m)' = {}
         /\ attributed' \cap LinksOf(m) = {}]_lifecycleVars

(* Between operations the chains hold what the states of the mods and      *)
(* their windows say.                                                      *)
HooksFollowTheStates == LifecycleTypeOK /\ OnlyEnabledModsAreHooked /\ WindowIsInstalled

(* Nothing leads a call in circles or out of memory. *)
ChainsAreSafe == InsertsNoLinkTwice /\ ChainsAreMapped

(* What an operation may not do to a window, and must have done when it    *)
(* was a teardown.                                                         *)
OperationsKeepWindows == WindowIsKept /\ TeardownIsComplete

(* What the ledger lists "e' esattamente l'unione degli hook delle mod     *)
(* Enabled" (hook_ownership.hpp, Req 9.6): an Enabled mod has its hooks.   *)
EnabledModsAreHooked ==
  job = NoJob /\ Available =>
    \A m \in Planned :
      state[m] = "Enabled" => LinksOf(m) \cap Resolved \subseteq attributed
=============================================================================
