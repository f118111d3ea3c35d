----------------------------- MODULE Supervisor -----------------------------
(***************************************************************************)
(* What keeps the gateway running on the parent instance: the systemd      *)
(* units of ops/systemd, the two scripts they run, and the proxy's         *)
(* heartbeat (crates/vsock-parent-proxy).  systemd and nitro-cli are       *)
(* modelled from how the units and the scripts use them.                   *)
(*                                                                         *)
(* The enclave's unit is a oneshot that remains active after its command   *)
(* has exited, so systemd does not notice when the enclave dies: a timer   *)
(* runs a watchdog script that looks (one step) and restarts (another).    *)
(* The proxy's unit Requires the enclave's and comes after it, so it goes  *)
(* down and up with each restart of it; and the enclave's unit stands in   *)
(* the same way behind docker.service and nitro-enclaves-allocator.service. *)
(* An operator who stops a unit and leaves it stopped is not modelled.     *)
(***************************************************************************)
EXTENDS Naturals

CONSTANT MaxFaults  \* bound on the number of things that go wrong

ASSUME FaultsAssumption == MaxFaults \in Nat

VARIABLES
    unit,      \* pzdr-enclave.service: "starting" and "stopping" run ExecStart
               \* and ExecStop, "posting" runs ExecStartPost
    vm,        \* the enclave with the configured CID, "running" or "down"
    proxy,     \* vsock-parent-proxy.service: "queued" waits for the enclave's
               \* unit, "waiting" for RestartSec, "off" for nobody
    watchdog,  \* pzdr-enclave-watchdog: "idle", or about to "restart" the
               \* enclave's unit, or "blocked" until that job is done
    seen,      \* what its last look found (history only)
    provoked,  \* a required service restarted since that look (history only)
    faults,    \* how much has gone wrong
    refused    \* a start of the enclave's unit has failed (history only)

vars == <<unit, vm, proxy, watchdog, seen, provoked, faults, refused>>

(* Boot of the instance: both units are wanted by multi-user.target. *)
Init ==
    /\ unit = "starting" /\ vm = "down" /\ proxy = "queued"
    /\ watchdog = "idle" /\ seen = "nothing" /\ provoked = FALSE
    /\ faults = 0 /\ refused = FALSE

Fault == faults < MaxFaults /\ faults' = faults + 1

(* A command may leave the enclave behind or take it down with its process  *)
(* group.                                                                   *)
MaySurvive == vm' \in {"down", vm}

(* The unit fails to start; a proxy queued behind it fails with it, which   *)
(* Restart=always does not undo.                                            *)
StartFails ==
    /\ unit' = "failed"
    /\ refused' = TRUE
    /\ proxy' = IF proxy = "queued" THEN "off" ELSE proxy

(* ExecStart=nitro-cli run-enclave, with a fixed CID; before that, what the *)
(* unit requires must have started.                                         *)
RunEnclave ==
    /\ unit = "starting"
    /\ \/ /\ vm = "down"
          /\ vm' = "running"
          /\ unit' = "posting"
          /\ UNCHANGED <<proxy, faults, refused>>
       \/ /\ vm = "running"
          /\ StartFails
          /\ UNCHANGED <<vm, faults>>
       \/ /\ vm = "down" /\ Fault
          /\ StartFails
          /\ UNCHANGED vm
    /\ UNCHANGED <<watchdog, seen, provoked>>

(* ExecStartPost=nitro-cli describe-enclaves: its status counts, not what   *)
(* it prints.                                                               *)
StartPost ==
    /\ unit = "posting"
    /\ \/ /\ unit' = "active"
          /\ UNCHANGED <<vm, proxy, faults, refused>>
       \/ /\ Fault
          /\ StartFails
          /\ MaySurvive
    /\ UNCHANGED <<watchdog, seen, provoked>>

(* pzdr-terminate-enclave finds the enclave by its CID and terminates it,   *)
(* or fails, its own describe-enclaves included; the start of the restart   *)
(* follows either way.                                                      *)
StopEnclave ==
    /\ unit = "stopping"
    /\ unit' = "starting"
    /\ \/ vm' = "down" /\ UNCHANGED faults
       \/ Fault /\ MaySurvive
    /\ UNCHANGED <<proxy, watchdog, seen, provoked, refused>>

(* A restart of the unit: ExecStop is for a unit whose start has finished;  *)
(* a start that has not is aborted with its process group, and may have     *)
(* brought the enclave up.  A unit that is being stopped goes on.  The      *)
(* proxy is stopped and queued behind the unit, unless it was off.          *)
Restart ==
    /\ unit' = IF unit \in {"active", "stopping"} THEN "stopping" ELSE "starting"
    /\ \/ unit = "starting" /\ vm' \in {"down", "running"}
       \/ unit = "posting" /\ MaySurvive
       \/ unit \in {"active", "stopping", "failed"} /\ UNCHANGED vm
    /\ proxy' = IF proxy = "off" THEN "off" ELSE "queued"

(* Requires= and After=: when docker.service or the allocator restarts, by  *)
(* hand, by an upgrade or after dying, the enclave's unit is restarted too, *)
(* unless it is down.  Nobody has looked.                                   *)
RequirementRestarts ==
    /\ unit # "failed" /\ Fault
    /\ Restart
    /\ provoked' = TRUE
    /\ UNCHANGED <<watchdog, seen, refused>>

(* The enclave dies by itself; nobody is told. *)
EnclaveDies ==
    /\ vm = "running" /\ Fault
    /\ vm' = "down"
    /\ UNCHANGED <<unit, proxy, watchdog, seen, provoked, refused>>

-----------------------------------------------------------------------------
(* The watchdog, every 15 seconds. *)

(* Mutant: no job order between the watchdog and the enclave's unit. *)
UnitSettled_ignored == TRUE

(* After=pzdr-enclave.service: not while that unit has a job. *)
UnitSettled == unit \in {"active", "failed"}

(* Mutant: jq without -e succeeds on an empty answer. *)
Look_lenient ==
    \/ seen' = vm /\ watchdog' = "idle" /\ UNCHANGED faults
    \/ Fault /\ seen' = "error" /\ watchdog' = "restart"

(* describe-enclaves | jq -e, under pipefail: success only if the enclave   *)
(* is there and RUNNING; a failure of describe-enclaves counts as a dead    *)
(* enclave.                                                                 *)
Look ==
    \/ /\ vm = "running"
       /\ seen' = vm /\ watchdog' = "idle" /\ UNCHANGED faults
    \/ /\ vm = "down"
       /\ seen' = vm /\ watchdog' = "restart" /\ UNCHANGED faults
    \/ /\ Fault
       /\ seen' = "error" /\ watchdog' = "restart"

WatchdogLooks ==
    /\ watchdog = "idle" /\ UnitSettled
    /\ Look
    /\ provoked' = FALSE
    /\ UNCHANGED <<unit, vm, proxy, refused>>

(* systemctl restart; a failed unit is just started. *)
WatchdogRestarts ==
    /\ watchdog = "restart"
    /\ watchdog' = "blocked"
    /\ Restart
    /\ UNCHANGED <<seen, provoked, faults, refused>>

WatchdogDone ==
    /\ watchdog = "blocked" /\ unit \in {"active", "failed"}
    /\ watchdog' = "idle"
    /\ UNCHANGED <<unit, vm, proxy, seen, provoked, faults, refused>>

-----------------------------------------------------------------------------
(* The proxy. *)

(* Bind, READY=1, and a task that sends WATCHDOG=1 from then on. *)
ProxyStarts ==
    /\ proxy = "queued" /\ unit = "active"
    /\ proxy' = "serving"
    /\ UNCHANGED <<unit, vm, watchdog, seen, provoked, faults, refused>>

(* It exits, or its runtime hangs and the heartbeats stop. *)
ProxyDies ==
    /\ proxy = "serving" /\ Fault
    /\ proxy' \in {"waiting", "wedged"}
    /\ UNCHANGED <<unit, vm, watchdog, seen, provoked, refused>>

(* Mutant: the heartbeat comes from systemd's own timer, not from the proxy. *)
HeartbeatMissed_never == UNCHANGED vars

(* WatchdogSec=30: no heartbeat, so systemd kills it. *)
HeartbeatMissed ==
    /\ proxy = "wedged"
    /\ proxy' = "waiting"
    /\ UNCHANGED <<unit, vm, watchdog, seen, provoked, faults, refused>>

(* Restart=always after RestartSec; Requires= starts the enclave's unit too *)
(* if it is not active.                                                     *)
ProxyRestarts ==
    /\ proxy = "waiting"
    /\ proxy' = "queued"
    /\ unit' = IF unit = "failed" THEN "starting" ELSE unit
    /\ UNCHANGED <<vm, watchdog, seen, provoked, faults, refused>>

Next ==
    \/ RunEnclave \/ StartPost \/ StopEnclave \/ RequirementRestarts \/ EnclaveDies
    \/ WatchdogLooks \/ WatchdogRestarts \/ WatchdogDone
    \/ ProxyStarts \/ ProxyDies \/ HeartbeatMissed \/ ProxyRestarts

(* Commands end, timers fire, systemd runs the jobs it has queued.  Faults  *)
(* are bounded by their guard and owe nothing.                              *)
Fairness ==
    /\ WF_vars(RunEnclave) /\ WF_vars(StartPost) /\ WF_vars(StopEnclave)
    /\ WF_vars(WatchdogLooks) /\ WF_vars(WatchdogRestarts) /\ WF_vars(WatchdogDone)
    /\ WF_vars(ProxyStarts) /\ WF_vars(HeartbeatMissed) /\ WF_vars(ProxyRestarts)

Spec == Init /\ [][Next]_vars /\ Fairness

-----------------------------------------------------------------------------
(* "Checks every 15 seconds that the enclave ... is still RUNNING and       *)
(* restarts it if not" (docs/RUNBOOK.md): whatever dies or fails to start,  *)
(* and in whatever order the watchdog looks and acts, once nothing more     *)
(* goes wrong the enclave comes up and is left alone: no restart loop.      *)
EnclaveSettles == <>[](vm = "running")

(* ExecStop takes a running enclave, and with it the log, down only when    *)
(* the watchdog's look itself failed or a required service has restarted    *)
(* since it looked: never an enclave the watchdog saw running, nor one it   *)
(* saw down that has come up since by itself.  (An enclave whose start is   *)
(* not finished may also be lost with the start, when that fails or is      *)
(* aborted.)                                                                *)
StopsOnlyUnseen ==
    [][unit = "stopping" /\ vm = "running" /\ vm' = "down"
          => seen = "error" \/ provoked]_vars

(* A proxy that exited, hung or went down with a restart serves again,      *)
(* unless a start of the enclave failed: then it is off and stays off, even *)
(* when the watchdog brings the enclave back.                               *)
ProxyComesBack == proxy # "serving" ~> proxy = "serving" \/ refused
=============================================================================
