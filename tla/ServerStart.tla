----------------------------- MODULE ServerStart -----------------------------
(***************************************************************************)
(* One process of the platform server and the kcp it is started against:   *)
(* Server.Run (ServerLifecycle) with the bootstrap it calls on its way     *)
(* (Bootstrap), platform/pkg/server/server.go:146-153.  Other servers      *)
(* bootstrap the same kcp, an administrator works in it, a signal or a     *)
(* failure of the embedded kcp can come at any time.                       *)
(*                                                                         *)
(* The process is one of Servers.  That it is started again after it has   *)
(* ended is another one's start.                                           *)
(***************************************************************************)
EXTENDS Bootstrap, ServerLifecycle

CONSTANT self  \* the process

ASSUME SelfType == self \in Servers

startVars == <<vars, lifecycleVars>>

StartInit == Init /\ RunInit

-----------------------------------------------------------------------------
(* Without a kcp the CRDs are installed instead.                           *)
UsesKcp == mode # "none"

(* An embedded kcp that has not started, has failed or has stopped answers *)
(* nobody.                                                                 *)
KcpAnswers == mode = "external" \/ (mode = "embedded" /\ kcp = "running")

(* Bootstrap, as far as it gets: against a kcp that does not answer only   *)
(* to the end of its patience.                                             *)
Bootstraps ==
  /\ main = "install" /\ UsesKcp
  /\ \/ KcpAnswers /\ ServerStep(self)
     \/ GiveUp(self)
     \/ \E n \in Names : CallFails(self, n)
  /\ UNCHANGED lifecycleVars

(* Run looks at what Bootstrap returns.  Mutant: the error is logged.      *)
BootstrapReturned_LogsError ==
  /\ main = "install"
  /\ UsesKcp => pc[self] \in {"done", "failed"}
  /\ InstallSucceeds
  /\ UNCHANGED vars
BootstrapReturned ==
  /\ main = "install"
  /\ UsesKcp => pc[self] = "done"
  /\ InstallSucceeds
  /\ UNCHANGED vars

(* Bootstrap has failed, also because the context is done, or could not be *)
(* called for want of a kubeconfig.                                        *)
NotCalled == pc[self] = "create" /\ stage[self] = 1 /\ todo[self] = Files[1]
BootstrapFailed ==
  /\ main = "install"
  /\ UsesKcp => pc[self] = "failed" \/ cancelled \/ NotCalled
  /\ InstallFails
  /\ UNCHANGED vars

(* Everything else that Run and its goroutines do.                         *)
RunStep == (Signal \/ MainStep \/ GoroutineStep) /\ UNCHANGED vars

(* The other servers, kcp itself and the administrator.                    *)
Others ==
  /\ KcpAnswers
  /\ \/ \E s \in Servers \ {self} : ServerStep(s) \/ ServerRestarts(s)
     \/ KcpStep
     \/ AdminStep
  /\ UNCHANGED lifecycleVars

StartNext == Bootstraps \/ BootstrapReturned \/ BootstrapFailed \/ RunStep \/ Others

StartSpec == StartInit /\ [][StartNext]_startVars
StartFairSpec == StartSpec /\ RunFairness

-----------------------------------------------------------------------------
(* The HTTP server and the controllers, which watch what the bootstrap has *)
(* exported, are started only over a kcp that has everything: whatever     *)
(* failed and was retried on the way, whichever other servers were at it,  *)
(* and whatever happens to Run later.  (What an administrator has deleted  *)
(* is not put back before the next start.)                                 *)
ServesOnlyBootstrapped ==
  UsesKcp /\ (http # "off" \/ mgr # "off") => AllInstalled /\ Ensured \subseteq There

(* Its inductive strengthening: past the installation Bootstrap has        *)
(* returned without an error, and nothing takes that back.                 *)
BootstrappedBefore ==
  UsesKcp /\ (http # "off" \/ mgr # "off"
                \/ main \in {"auth", "controllers", "select", "awaitHttp"})
    => pc[self] = "done"
=============================================================================
