------------------------------- MODULE Reload -------------------------------
(***************************************************************************)
(* ReloadManager (src/app/watcher/reload.py): one configuration and one    *)
(* set of components serve; apply_tier8 takes the next configuration, if   *)
(* it may, and swaps in the components built for it. Requests are served   *)
(* between any two of its steps. A rebuild makes a runner and a manager of *)
(* MCP connections; the store is shared.                                   *)
(***************************************************************************)
EXTENDS Operator

CONSTANT BootConfig   \* tiers 1 to 7

ASSUME ReloadAssumption == BootConfig.flaw = "none"

VARIABLES
  config,       \* the applied configuration, which requests read
  source,       \* the version of the resource it came from
  generation,
  gate,         \* the limit the gate of run slots enforces
  serving,      \* the runner and the manager of connections that serve
  managers,     \* every manager made, in order
  rebuild       \* the replacements of an apply under way

reloadVars == <<config, source, generation, gate, serving, managers, rebuild>>

Categories == {"noop", "rejected", "restart_required", "applied_live", "component_rebuild"}
Idle == [at |-> "idle"]

\* Validation, no-op detection and classify_change: restart wins over rebuild over live.
Category(next) ==
  CASE next.flaw # "none" -> "rejected"
    [] next = config -> "noop"
    [] next.port # config.port -> "restart_required"
    [] next.model # config.model -> "component_rebuild"
    [] OTHER -> "applied_live"

\* Only the settings that apply live differ: the holder of the configuration is replaced and
\* the gate is told.
ApplyLive(next, version) ==
  /\ Category(next) = "applied_live"
  /\ config' = next /\ source' = version /\ generation' = generation + 1
  /\ gate' = next.cap
  /\ UNCHANGED <<serving, managers, rebuild, failures>>

Ignore(next) ==
  /\ Category(next) \in {"noop", "rejected", "restart_required"}
  /\ UNCHANGED <<reloadVars, failures>>

\* build_components: a runner for the new configuration, and a manager of its own.
Replacement(next, version) ==
  [at |-> "check", config |-> next, version |-> version, manager |-> Len(managers) + 1]

\* The start of the new manager only sets its reconcilers going: its servers need not be
\* connected. A part that cannot be built leaves nothing behind.
Build(next, version) ==
  /\ Category(next) = "component_rebuild"
  /\ \/ /\ managers' = Append(managers, "open")
        /\ rebuild' = Replacement(next, version)
        /\ UNCHANGED failures
     \/ MayFail /\ UNCHANGED <<managers, rebuild>>
  /\ UNCHANGED <<config, source, generation, gate, serving>>

\* The health check waits for the store. When it fails the old components stay, and the
\* manager that was started is left as it is.
RebuildFails ==
  /\ rebuild.at = "check" /\ MayFail
  /\ rebuild' = Idle
  /\ UNCHANGED <<config, source, generation, gate, serving, managers>>

\* The pointer swap, in one step of the event loop; the gate and the limiter are carried over
\* as they are.
Swap ==
  /\ rebuild.at = "check"
  /\ config' = rebuild.config /\ source' = rebuild.version /\ generation' = generation + 1
  /\ serving' = [runner |-> rebuild.config, manager |-> rebuild.manager]
  /\ rebuild' = [at |-> "close", manager |-> serving.manager]
  /\ UNCHANGED <<gate, managers, failures>>

\* Mutant: the components are replaced in place without a copy, and the new ones are closed.
CloseServing ==
  /\ rebuild.at = "close"
  /\ managers' = [managers EXCEPT ![serving.manager] = "closed"]
  /\ rebuild' = Idle
  /\ UNCHANGED <<config, source, generation, gate, serving, failures>>

CloseRetired ==
  /\ rebuild.at = "close"
  /\ managers' = [managers EXCEPT ![rebuild.manager] = "closed"]
  /\ rebuild' = Idle
  /\ UNCHANGED <<config, source, generation, gate, serving, failures>>

ReloadInit ==
  /\ config = BootConfig /\ source = 0 /\ generation = 1 /\ gate = BootConfig.cap
  /\ serving = [runner |-> BootConfig, manager |-> 1]
  /\ managers = <<"open">> /\ rebuild = Idle
ReloadNext == RebuildFails \/ Swap \/ CloseRetired
=============================================================================
