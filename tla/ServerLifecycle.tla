--------------------------- MODULE ServerLifecycle ---------------------------
(***************************************************************************)
(* Server.Run of platform/pkg/server/server.go: the goroutine that calls   *)
(* it and the four it starts, the channels between them, and the context   *)
(* that SIGINT or SIGTERM cancels.                                         *)
(*                                                                         *)
(*   main      starts embedded kcp and waits for it, installs what the     *)
(*             platform needs, starts the others, waits for a reason to    *)
(*             return                                                      *)
(*   kcp       EmbeddedKCP.Run: closes readyCh once, may return an error,  *)
(*             which goes into kcpErrCh (room for one)                     *)
(*   mgr       the controller manager; its error is only logged            *)
(*   shutdown  waits for the context or for kcpErrCh, then shuts the HTTP  *)
(*             server down                                                 *)
(*   http      ListenAndServeTLS; a real error goes into httpErrCh, which  *)
(*             is closed in any case                                       *)
(*                                                                         *)
(* kcpErrCh has two receivers while the server runs, main and shutdown,    *)
(* and holds one error: one of them gets it.                               *)
(***************************************************************************)
EXTENDS Naturals

VARIABLES
  mode,       \* how the server was started: which kcp it uses, if any
  cancelled,  \* the context is done
  main,       \* where Run is
  result,     \* what Run returned
  kcp,        \* the embedded kcp goroutine
  kcpReady,   \* readyCh is closed
  kcpErrCh,   \* kcpErrCh holds an error
  mgr,        \* the manager goroutine
  shutdown,   \* the shutdown goroutine
  stopping,   \* httpServer.Shutdown has been called
  http,       \* the HTTP goroutine
  httpErrCh   \* "open", "error" (closed, an error in it) or "closed"

ctxVars == <<mode, cancelled>>
runVars == <<main, result>>
embeddedVars == <<kcp, kcpReady, kcpErrCh>>
stopVars == <<shutdown, stopping>>
httpVars == <<http, httpErrCh>>
lifecycleVars == <<ctxVars, runVars, embeddedVars, mgr, stopVars, httpVars>>

Modes == {"embedded", "external", "none"}
Results == {"none", "nil", "startError", "kcpError", "httpError"}

RunInit ==
  /\ mode \in Modes
  /\ cancelled = FALSE
  /\ main = "begin"
  /\ result = "none"
  /\ kcp = "off"
  /\ kcpReady = FALSE
  /\ kcpErrCh = FALSE
  /\ mgr = "off"
  /\ shutdown = "off"
  /\ stopping = FALSE
  /\ http = "off"
  /\ httpErrCh = "open"

Return(r) == main' = "returned" /\ result' = r

(* SIGINT or SIGTERM.                                                      *)
Signal ==
  /\ ~cancelled
  /\ cancelled' = TRUE
  /\ UNCHANGED <<mode, runVars, embeddedVars, mgr, stopVars, httpVars>>

-----------------------------------------------------------------------------
(* main, up to the last select.                                            *)

StartKcp ==
  /\ main = "begin"
  /\ IF mode = "embedded" THEN main' = "awaitKcp" /\ kcp' = "running"
                          ELSE main' = "install" /\ UNCHANGED kcp
  /\ UNCHANGED <<ctxVars, result, kcpReady, kcpErrCh, mgr, stopVars, httpVars>>

AwaitKcp ==
  /\ main = "awaitKcp"
  /\ \/ kcpReady /\ main' = "install" /\ UNCHANGED <<result, kcpErrCh>>
     \/ kcpErrCh /\ kcpErrCh' = FALSE /\ Return("startError")
     \/ cancelled /\ Return("startError") /\ UNCHANGED kcpErrCh
  /\ UNCHANGED <<ctxVars, kcp, kcpReady, mgr, stopVars, httpVars>>

(* Without kcp the CRDs are installed.  With kcp its bootstrap goes        *)
(* through the workspaces and retries each failing file until the context  *)
(* is done, so nothing says that it ends by itself.                        *)
InstallSucceeds ==
  /\ main = "install"
  /\ main' = "auth"
  /\ UNCHANGED <<ctxVars, result, embeddedVars, mgr, stopVars, httpVars>>

InstallFails ==
  /\ main = "install"
  /\ Return("startError")
  /\ UNCHANGED <<ctxVars, embeddedVars, mgr, stopVars, httpVars>>

(* The OIDC handler, if configured, fetches the provider's discovery       *)
(* document; the kcp proxy is built; the routes are registered.            *)
SetUpRoutes ==
  /\ main = "auth"
  /\ \/ main' = "controllers" /\ UNCHANGED result
     \/ Return("startError")
  /\ UNCHANGED <<ctxVars, embeddedVars, mgr, stopVars, httpVars>>

(* With kcp the manager is built and started; then the two HTTP goroutines *)
(* are.                                                                    *)
StartServing ==
  /\ main = "controllers"
  /\ \/ /\ main' = "select"
        /\ mgr' = IF mode = "none" THEN "off" ELSE "running"
        /\ shutdown' = "waiting"
        /\ http' = "starting"
        /\ UNCHANGED result
     \/ mode # "none" /\ Return("startError") /\ UNCHANGED <<mgr, shutdown, http>>
  /\ UNCHANGED <<ctxVars, embeddedVars, stopping, httpErrCh>>

(* The last select: of several ready cases any one is taken.               *)
ReturnOnHttp ==
  /\ main = "select"
  /\ httpErrCh # "open"
  /\ Return(IF httpErrCh = "error" THEN "httpError" ELSE "nil")
  /\ UNCHANGED <<ctxVars, embeddedVars, mgr, stopVars, httpVars>>

ReturnOnKcpError ==
  /\ main = "select"
  /\ kcpErrCh
  /\ kcpErrCh' = FALSE
  /\ Return("kcpError")
  /\ UNCHANGED <<ctxVars, kcp, kcpReady, mgr, stopVars, httpVars>>

AwaitHttp ==
  /\ main = "select"
  /\ cancelled
  /\ main' = "awaitHttp"
  /\ UNCHANGED <<ctxVars, result, embeddedVars, mgr, stopVars, httpVars>>

ReturnOnCancel ==
  /\ main = "awaitHttp"
  /\ httpErrCh # "open"
  /\ Return("nil")
  /\ UNCHANGED <<ctxVars, embeddedVars, mgr, stopVars, httpVars>>

-----------------------------------------------------------------------------
(* The goroutines.  They end with the process, once Run has returned.      *)

Alive == main # "returned"

KcpBecomesReady ==
  /\ Alive /\ kcp = "running" /\ ~kcpReady
  /\ kcpReady' = TRUE
  /\ UNCHANGED <<ctxVars, runVars, kcp, kcpErrCh, mgr, stopVars, httpVars>>

KcpFails ==
  /\ Alive /\ kcp = "running"
  /\ kcp' = "failed"
  /\ kcpErrCh' = TRUE
  /\ UNCHANGED <<ctxVars, runVars, kcpReady, mgr, stopVars, httpVars>>

(* External: kcp's server returns nil only when its context is done.       *)
KcpStops ==
  /\ Alive /\ kcp = "running" /\ cancelled
  /\ kcp' = "stopped"
  /\ UNCHANGED <<ctxVars, runVars, kcpReady, kcpErrCh, mgr, stopVars, httpVars>>

ManagerEnds ==
  /\ Alive /\ mgr = "running"
  /\ mgr' \in {"failed", "stopped"}
  /\ mgr' = "stopped" => cancelled
  /\ UNCHANGED <<ctxVars, runVars, embeddedVars, stopVars, httpVars>>

(* Mutant of ShutdownOnKcpError: the error is logged and the goroutine     *)
(* ends there.                                                             *)
ShutdownOnKcpError_LogOnly ==
  /\ Alive /\ shutdown = "waiting" /\ kcpErrCh
  /\ kcpErrCh' = FALSE
  /\ shutdown' = "done"
  /\ UNCHANGED <<ctxVars, runVars, kcp, kcpReady, mgr, stopping, httpVars>>

ShutdownOnKcpError ==
  /\ Alive /\ shutdown = "waiting" /\ kcpErrCh
  /\ kcpErrCh' = FALSE
  /\ shutdown' = "draining"
  /\ stopping' = TRUE
  /\ UNCHANGED <<ctxVars, runVars, kcp, kcpReady, mgr, httpVars>>

ShutdownOnCancel ==
  /\ Alive /\ shutdown = "waiting" /\ cancelled
  /\ shutdown' = "draining"
  /\ stopping' = TRUE
  /\ UNCHANGED <<ctxVars, runVars, embeddedVars, mgr, httpVars>>

(* Open requests have ended, or 5 seconds have passed.                     *)
Drained ==
  /\ Alive /\ shutdown = "draining"
  /\ shutdown' = "done"
  /\ UNCHANGED <<ctxVars, runVars, embeddedVars, mgr, stopping, httpVars>>

(* Reading the certificate or binding the port can fail; a server that is  *)
(* already shut down does not start.                                       *)
Listen ==
  /\ Alive /\ http = "starting" /\ ~stopping
  /\ http' = "listening"
  /\ UNCHANGED <<ctxVars, runVars, embeddedVars, mgr, stopVars, httpErrCh>>

(* ListenAndServeTLS ends with an error of its own, which it may still when*)
(* a shutdown has come before it listens; a listener that is shut down     *)
(* ends with ErrServerClosed.  Mutant of HttpFails: the channel is closed  *)
(* without the error.                                                      *)
MayFail == http = "starting" \/ (http = "listening" /\ ~stopping)
HttpFails_NotSent ==
  /\ Alive /\ MayFail
  /\ http' = "ended"
  /\ httpErrCh' = "closed"
  /\ UNCHANGED <<ctxVars, runVars, embeddedVars, mgr, stopVars>>
HttpFails ==
  /\ Alive /\ MayFail
  /\ http' = "ended"
  /\ httpErrCh' = "error"
  /\ UNCHANGED <<ctxVars, runVars, embeddedVars, mgr, stopVars>>

(* Mutant of HttpClosed: httpErrCh is left open.                           *)
HttpClosed_LeftOpen ==
  /\ Alive /\ http \in {"starting", "listening"} /\ stopping
  /\ http' = "ended"
  /\ UNCHANGED <<ctxVars, runVars, embeddedVars, mgr, stopVars, httpErrCh>>

(* ErrServerClosed: ListenAndServeTLS returns as soon as Shutdown begins,  *)
(* not when it is done.                                                    *)
HttpClosed ==
  /\ Alive /\ http \in {"starting", "listening"} /\ stopping
  /\ http' = "ended"
  /\ httpErrCh' = "closed"
  /\ UNCHANGED <<ctxVars, runVars, embeddedVars, mgr, stopVars>>

-----------------------------------------------------------------------------
(* What main does on its own, or as soon as something it waits for is      *)
(* there.  Installing is left out: it may go on for ever.                  *)
MainStep ==
  \/ StartKcp \/ AwaitKcp \/ SetUpRoutes \/ StartServing
  \/ ReturnOnHttp \/ ReturnOnKcpError \/ AwaitHttp \/ ReturnOnCancel
  \/ cancelled /\ InstallFails

ShutdownStep == ShutdownOnKcpError \/ ShutdownOnCancel \/ Drained

GoroutineStep ==
  \/ KcpBecomesReady \/ KcpFails \/ KcpStops
  \/ ManagerEnds
  \/ ShutdownStep
  \/ Listen \/ HttpFails \/ HttpClosed

RunNext ==
  \/ Signal
  \/ MainStep \/ InstallSucceeds \/ InstallFails
  \/ GoroutineStep

RunSpec == RunInit /\ [][RunNext]_lifecycleVars

(* The runtime schedules every goroutine that can go on.  Nothing is       *)
(* assumed of kcp, of the network or of signals.                           *)
RunFairness ==
  WF_lifecycleVars(MainStep) /\ WF_lifecycleVars(ShutdownStep) /\ WF_lifecycleVars(HttpClosed)

-----------------------------------------------------------------------------
(* Properties.                                                             *)

RunTypeOK ==
  /\ mode \in Modes
  /\ cancelled \in BOOLEAN /\ kcpReady \in BOOLEAN /\ kcpErrCh \in BOOLEAN
  /\ stopping \in BOOLEAN
  /\ main \in {"begin", "awaitKcp", "install", "auth", "controllers", "select", "awaitHttp",
               "returned"}
  /\ result \in Results
  /\ (result = "none") = (main # "returned")
  /\ kcp \in {"off", "running", "failed", "stopped"}
  /\ mgr \in {"off", "running", "failed", "stopped"}
  /\ shutdown \in {"off", "waiting", "draining", "done"}
  /\ http \in {"off", "starting", "listening", "ended"}
  /\ httpErrCh \in {"open", "error", "closed"}

(* Requests are accepted only after kcp, where it is embedded, was ready   *)
(* and everything was installed and started without an error.              *)
ServesOnlyWhenSetUp ==
  http # "off" =>
    /\ mode = "embedded" => kcpReady
    /\ mode # "none" => mgr # "off"
    /\ result # "startError"

(* Why ServesOnlyWhenSetUp holds: what Run has behind it at each position. *)
SetUpInOrder ==
  /\ http # "off" => main \in {"select", "awaitHttp", "returned"}
  /\ mode = "embedded" /\ main \in {"install", "auth", "controllers", "select", "awaitHttp"}
       => kcpReady
  /\ mode # "none" /\ main \in {"select", "awaitHttp"} => mgr # "off"
SetUpInv == RunTypeOK /\ SetUpInOrder /\ ServesOnlyWhenSetUp

(* Run does not return nil, and the process does not exit with status 0,   *)
(* while it was neither told to stop nor has lost its kcp.                 *)
NilOnlyWhenStopped == result = "nil" => cancelled \/ kcp = "failed"

(* Why NilOnlyWhenStopped holds: an error in kcpErrCh, a shutdown under    *)
(* way and a channel closed without an error each have their cause.        *)
StopsHaveCauses ==
  /\ main = "begin" => kcp = "off"
  /\ kcpErrCh => kcp = "failed"
  /\ stopping => cancelled \/ kcp = "failed"
  /\ httpErrCh \in {"open", "error"} \/ (httpErrCh = "closed" /\ stopping)
  /\ main = "awaitHttp" => cancelled
LifecycleInv == StopsHaveCauses /\ NilOnlyWhenStopped

(* The HTTP server stops accepting only for a reason Run hears of, so the  *)
(* process never lingers without one: Run returns.                         *)
NeverHeadless == http = "ended" ~> main = "returned"

(* A signal ends the server whatever it is doing.  The failure of kcp ends *)
(* one that serves, whichever of the two receivers takes its error.        *)
ReasonEndsServer ==
  cancelled \/ (kcp = "failed" /\ main = "select") ~> main = "returned"

(* The comment at server.go:313 has Run wait for "either HTTP server       *)
(* error, kcp error, or context cancellation": with neither a signal nor   *)
(* an HTTP error, a failed kcp is what it returns.                         *)
KcpErrorIsReturned ==
  main = "returned" /\ kcp = "failed" /\ ~cancelled =>
    result \in {"startError", "kcpError", "httpError"}
=============================================================================
